---- MODULE Spec2Model ----
(***************************************************************************)
(* Model of LLM-GitRebase: the MCP rebase tool manager (src/src/server.py) *)
(* driving a git repository, and the planner call with its retry loop      *)
(* (src/src/rebaser/llm.py, src/src/rebaser/agent.py).                     *)
(***************************************************************************)
EXTENDS Integers, Sequences, FiniteSets, TLC

\* ------------------------------------------------------------------------
\* Bounds of the model
\* ------------------------------------------------------------------------
MaxCalls == 2
MaxEdits == 1
MaxPlan == 2
MaxActions == 2
MaxText == 4
MaxReprompts == 2
MaxOps == 2
MaxSteps == 3

\* ------------------------------------------------------------------------
\* Repository vocabulary
\* ------------------------------------------------------------------------
Paths == {"a.txt", "missing.txt"}
Absent == "absent"
NoValue == "None"
EmptyText == ""
\* `not value` of an optional string: None or the empty string
Falsy(value) == value \in {NoValue, EmptyText}
Conflicted == "<<<<<<<"
Contents == {Absent, "v1", "v2", "hello", Conflicted}
BadSha == 0

\* no function is being run on its own
NoLocals == [fn |-> "none"]

\* main() and the operator loop before they have run
NoDriver ==
    [step |-> "none", copy |-> "none", query |-> NoValue, entry |-> NoValue,
     choice |-> NoValue, shown |-> NoValue, turns |-> 0, reads |-> 0, prints |-> 0,
     histories |-> 0, plans |-> 0, writes |-> 0, exists |-> FALSE]

EmptyTree == [p \in Paths |-> Absent]

CommitObj(parent, tree, msg) == [parent |-> parent, tree |-> tree, msg |-> msg]

InitCommits ==
    << CommitObj(0, [EmptyTree EXCEPT !["a.txt"] = "v1"], "m1"),
       CommitObj(1, [EmptyTree EXCEPT !["a.txt"] = "v2"], "m2"),
       CommitObj(2, [EmptyTree EXCEPT !["a.txt"] = "v2", !["missing.txt"] = "v1"], "m3") >>

OnBranch == [kind |-> "branch", at |-> 0]
Detached(c) == [kind |-> "detached", at |-> c]
NoPrev == [kind |-> "none", at |-> 0]

VARIABLES
    commits,     \* object store: sequence of commit objects, id = position
    branchTip,   \* commit the session branch points to
    head,        \* HEAD: on the branch, or detached at a commit
    prev,        \* previous checkout, the target of `git checkout -`
    worktree,    \* working tree: path -> content
    index,       \* staging area: path -> content
    conflicts,   \* unmerged paths of the index
    rebaseDir,   \* .git/rebase-merge exists
    todo,        \* remaining sequencer steps
    stopped,     \* commit of the step the sequencer stopped on (conflict, or a
                 \* pick that became empty)
    orig,        \* the sequencer's records: head and branch tip when the rebase
                 \* started, and the commit an edit step stopped on (amend)
    call,        \* the last tool call and what it did
    ret,         \* the last tool output
    ncalls,      \* number of tool calls made so far
    mode,        \* "plan": one call_llm run; "turn": one agent_loop run
    pc,          \* "call": an invocation is due; "function": get_function_call is
                 \* due; "tool": call_tool is due; "done": returned or raised
    attempt,     \* the attempt argument of the invocation that is due
    llmCalls,    \* requests sent to the remote planner
    apiErrors,   \* APIError exceptions received from the planner
    waits,       \* the sleeps performed, in order
    response,    \* the planner's last answer
    outcome,     \* how the run ended
    result,      \* the RebasePlan returned
    toolCalls,   \* engine operations dispatched by the turn
    planFile,    \* the lines of plan_file.txt, the sequencer file write_plan wrote
    driver,      \* main() and the operator loop: position, directive, operator entry
    locals       \* arguments, locals and value of a function run on its own

repoVars == <<commits, branchTip, head, prev, worktree, index, conflicts,
              rebaseDir, todo, stopped, orig>>
engineVars == <<commits, branchTip, head, prev, worktree, index, conflicts,
                rebaseDir, todo, stopped, orig, call, ret, ncalls>>
plannerVars == <<mode, pc, attempt, llmCalls, apiErrors, waits, response, outcome,
                 result, toolCalls, planFile, driver, locals>>
vars == <<commits, branchTip, head, prev, worktree, index, conflicts,
          rebaseDir, todo, stopped, orig, call, ret, ncalls,
          mode, pc, attempt, llmCalls, apiErrors, waits, response, outcome,
          result, toolCalls, planFile, driver, locals>>

Repo ==
    [commits |-> commits, branchTip |-> branchTip, head |-> head, prev |-> prev,
     worktree |-> worktree, index |-> index, conflicts |-> conflicts,
     rebaseDir |-> rebaseDir, todo |-> todo, stopped |-> stopped, orig |-> orig]

SetRepo(r) ==
    /\ commits' = r.commits
    /\ branchTip' = r.branchTip
    /\ head' = r.head
    /\ prev' = r.prev
    /\ worktree' = r.worktree
    /\ index' = r.index
    /\ conflicts' = r.conflicts
    /\ rebaseDir' = r.rebaseDir
    /\ todo' = r.todo
    /\ stopped' = r.stopped
    /\ orig' = r.orig

\* ------------------------------------------------------------------------
\* Tool outputs
\* ------------------------------------------------------------------------
Line(text, path, detail) == <<text, path, detail>>

Output(success, message, paths) ==
    [success |-> success, message |-> message, paths |-> paths, raised |-> "none"]
Out(success, message) == Output(success, message, {})
\* no output: an exception of the given kind left the tool
Raised(kind) == [success |-> FALSE, message |-> <<>>, paths |-> {}, raised |-> kind]

NoCall == [op |-> "none", commit |-> BadSha, nops |-> 0, failures |-> <<>>,
           attempted |-> <<>>, exc |-> "none", amended |-> BadSha,
           prevOp |-> "none", prevOk |-> FALSE, noPause |-> FALSE,
           file_path |-> NoValue, content |-> NoValue, new_file_path |-> NoValue]
\* the record of a call that follows the call recorded in c with output o
Following(c, o, rec) == [rec EXCEPT !.prevOp = c.op, !.prevOk = o.success]

\* a plan none of whose steps makes the sequencer pause or drops a commit
NoPause(plan) == \A i \in 1..Len(plan) : plan[i].action \in {"PICK", "REWORD"}

\* ------------------------------------------------------------------------
\* Git backend primitives over a repository value r
\* ------------------------------------------------------------------------
Ok(r) == [r |-> r, err |-> "none"]
Err(r, kind) == [r |-> r, err |-> kind]

Resolves(r, sha) == sha \in 1..Len(r.commits)
TargetCommit(r, t) == IF t.kind = "branch" THEN r.branchTip ELSE t.at
HeadCommit(r) == TargetCommit(r, r.head)
TreeOf(r, c) == IF c = 0 THEN EmptyTree ELSE r.commits[c].tree

\* position of an equal commit object in the store, 0 when there is none
FindCommit(cs, obj) ==
    IF \E i \in 1..Len(cs) : cs[i] = obj
    THEN CHOOSE i \in 1..Len(cs) : cs[i] = obj
    ELSE 0

\* commits are content addressed: storing an equal object yields the same id
StoreCommit(r, obj) ==
    LET found == FindCommit(r.commits, obj) IN
    IF found # 0 THEN [r |-> r, id |-> found]
    ELSE [r |-> [r EXCEPT !.commits = Append(r.commits, obj)], id |-> Len(r.commits) + 1]

MoveHead(r, c) ==
    IF r.head.kind = "branch" THEN [r EXCEPT !.branchTip = c]
    ELSE [r EXCEPT !.head = Detached(c)]

\* git checkout <target>: two-way merge of HEAD and target over the index
CheckoutBlocked(r, t) ==
    LET O == TreeOf(r, HeadCommit(r))
        T == TreeOf(r, TargetCommit(r, t))
    IN \/ r.conflicts # {}
       \/ \E p \in Paths :
            /\ O[p] # T[p]
            /\ r.index[p] # T[p]
            /\ ~(r.index[p] = O[p] /\ r.worktree[p] = r.index[p])

GitCheckout(r, t) ==
    LET O == TreeOf(r, HeadCommit(r))
        T == TreeOf(r, TargetCommit(r, t))
    IN IF t.kind = "none" \/ CheckoutBlocked(r, t) THEN Err(r, "git")
       ELSE Ok([r EXCEPT
                !.index = [p \in Paths |-> IF O[p] = T[p] THEN r.index[p] ELSE T[p]],
                !.worktree = [p \in Paths |->
                                IF O[p] = T[p] \/ r.index[p] = T[p]
                                THEN r.worktree[p] ELSE T[p]],
                !.head = t,
                !.prev = IF t = r.head THEN r.prev ELSE r.head])

\* git add <path>
GitAdd(r, p) ==
    IF r.worktree[p] = Absent /\ r.index[p] = Absent THEN Err(r, "git")
    ELSE Ok([r EXCEPT !.index[p] = r.worktree[p], !.conflicts = r.conflicts \ {p}])

\* git rm <path>: refuses untracked paths and paths with local or staged changes
GitRm(r, p) ==
    IF \/ r.index[p] = Absent
       \/ r.index[p] # TreeOf(r, HeadCommit(r))[p]
       \/ (r.worktree[p] # Absent /\ r.worktree[p] # r.index[p])
    THEN Err(r, "git")
    ELSE Ok([r EXCEPT !.index[p] = Absent, !.worktree[p] = Absent])

\* git mv <src> <dst>
GitMv(r, src, dst) ==
    IF r.index[src] = Absent \/ r.worktree[src] = Absent
       \/ r.index[dst] # Absent \/ r.worktree[dst] # Absent \/ src = dst
    THEN Err(r, "git")
    ELSE Ok([r EXCEPT !.index[dst] = r.index[src], !.index[src] = Absent,
                      !.worktree[dst] = r.worktree[src], !.worktree[src] = Absent])

\* git commit --amend --no-edit
GitCommitAmend(r) ==
    IF r.conflicts # {} THEN Err(r, "git")
    ELSE LET h == r.commits[HeadCommit(r)]
             st == StoreCommit(r, CommitObj(h.parent, r.index, h.msg))
         IN Ok(MoveHead(st.r, st.id))

\* ------------------------------------------------------------------------
\* File operations of GitRebaseMCPToolManager (src/src/server.py)
\* ------------------------------------------------------------------------
FileOperation(type, path, content, newPath, sha) ==
    [operation_type |-> type, file_path |-> path, content |-> content,
     new_file_path |-> newPath, commit_sha |-> sha]

NoFailure == <<>>
\* outcome of one operation: the repository, the returned failure text
\* (NoFailure for None) and the kind of exception raised ("none" if none)
Done(r) == [r |-> r, status |-> NoFailure, exc |-> "none"]
Failure(r, line) == [r |-> r, status |-> line, exc |-> "none"]
Throws(r, kind) == [r |-> r, status |-> NoFailure, exc |-> kind]
AfterGit(g) == IF g.err = "none" THEN Done(g.r) ELSE Throws(g.r, g.err)

WriteText(r, p, content) == [r EXCEPT !.worktree[p] = content]

\* a modify that writes the file and does not stage it
ModifyWithoutStaging(r, op) ==
    IF Falsy(op.content)
    THEN Failure(r, Line("Cannot modify", op.file_path, "No content provided"))
    ELSE Done(WriteText(r, op.file_path, op.content))

_modify_file(r, op) ==
    IF Falsy(op.content)
    THEN Failure(r, Line("Cannot modify", op.file_path, "No content provided"))
    ELSE AfterGit(GitAdd(WriteText(r, op.file_path, op.content), op.file_path))

\* rawpath: whether the entry the diff gives for a path the commit added has
\* an a_rawpath that is true (the raw diff format names the path on both
\* sides) or none
_restore_file(r, op, badName, rawpath) ==
    IF ~Resolves(r, op.commit_sha) THEN Throws(r, badName)
    ELSE LET file_commit == r.commits[op.commit_sha]
             p == op.file_path
         IN IF file_commit.parent = 0
            THEN Failure(r, Line("Cannot restore", p, "No changes found"))
            ELSE IF TreeOf(r, file_commit.parent)[p] = file_commit.tree[p]
            THEN Failure(r, Line("Cannot restore", p, "No changes found"))
            ELSE IF TreeOf(r, file_commit.parent)[p] = Absent /\ ~rawpath
            THEN Failure(r, Line("Cannot restore", p, "No changes found"))
            ELSE IF r.worktree[p] = Absent
            THEN Throws(r, "other")
            ELSE AfterGit(GitAdd(WriteText(r, p, r.worktree[p]), p))

_delete_file(r, op) ==
    IF r.worktree[op.file_path] = Absent
    THEN Failure(r, Line("Cannot delete", op.file_path, "file does not exist"))
    ELSE AfterGit(GitRm(r, op.file_path))

\* a rename that does not look at the destination before it calls git mv
RenameUnchecked(r, op) ==
    IF r.worktree[op.file_path] = Absent
    THEN Failure(r, Line("Cannot rename", op.file_path, "Source does not exist"))
    ELSE IF Falsy(op.new_file_path)
    THEN Failure(r, Line("Cannot rename", op.file_path, "No new file path provided"))
    ELSE AfterGit(GitMv(r, op.file_path, op.new_file_path))

_rename_file(r, op) ==
    IF r.worktree[op.file_path] = Absent
    THEN Failure(r, Line("Cannot rename", op.file_path, "Source does not exist"))
    ELSE IF Falsy(op.new_file_path)
    THEN Failure(r, Line("Cannot rename", op.file_path, "No new file path provided"))
    ELSE IF r.worktree[op.new_file_path] # Absent
    THEN Failure(r, Line("Cannot rename", op.file_path, "Target already exists"))
    ELSE AfterGit(GitMv(r, op.file_path, op.new_file_path))

\* the dispatch table of git_edit_commit
ApplyOperation(r, op, badName, rawpath) ==
    CASE op.operation_type = "modify" -> _modify_file(r, op)
      [] op.operation_type = "restore" -> _restore_file(r, op, badName, rawpath)
      [] op.operation_type = "delete" -> _delete_file(r, op)
      [] op.operation_type = "rename" -> _rename_file(r, op)

\* the loop goes on to the next operation unless the last one raised
LoopContinuesOnlyOnSuccess(o) == o.exc = "none" /\ o.status = NoFailure
LoopContinues(o) == o.exc = "none"

\* the for loop of git_edit_commit from operation i on; an exception leaves it
RECURSIVE ApplyOperations(_, _, _, _, _)
ApplyOperations(ops, i, st, badName, rawpath) ==
    IF i > Len(ops) THEN st
    ELSE LET o == ApplyOperation(st.r, ops[i], badName, rawpath)
             st1 == [r |-> o.r,
                     failures |-> IF o.status # NoFailure
                                  THEN Append(st.failures, o.status)
                                  ELSE st.failures,
                     attempted |-> Append(st.attempted, i),
                     exc |-> o.exc]
         IN IF ~LoopContinues(o) THEN st1
            ELSE ApplyOperations(ops, i + 1, st1, badName, rawpath)

ExceptionOutput(kind, gitText) ==
    IF kind = "git" THEN Out(FALSE, <<Line(gitText, "", "stderr")>>)
    ELSE Out(FALSE, <<Line("An unexpected error occurred", "", "")>>)

\* outcome of git_edit_commit: the repository, the output, and what the call
\* did: the state of the operation loop (None before it) and the commit the
\* amend created (0 if it did not run)
NoLoop == [failures |-> <<>>, attempted |-> <<>>, exc |-> "none"]
EditResult(r, ret_, ap, amended) ==
    [r |-> r, ret |-> ret_, failures |-> ap.failures, attempted |-> ap.attempted,
     exc |-> ap.exc, amended |-> amended]

\* `if failures:` after the loop
AnyFailedIgnored(failures) == FALSE
AnyFailed(failures) == failures # <<>>

EditCommit(r0, commit_hash, file_operations, badName, rawpath) ==
    IF ~Resolves(r0, commit_hash)
    THEN IF badName = "git"
         THEN EditResult(r0, Out(FALSE, <<Line("Error: Commit", "", "not found")>>), NoLoop, 0)
         ELSE EditResult(r0, Raised(badName), NoLoop, 0)
    ELSE
    LET co == GitCheckout(r0, Detached(commit_hash)) IN
    IF co.err # "none"
    THEN EditResult(co.r, ExceptionOutput(co.err, "Edit failed"), NoLoop, 0)
    ELSE
    LET ap == ApplyOperations(file_operations, 1,
                  [r |-> co.r, failures |-> <<>>, attempted |-> <<>>, exc |-> "none"],
                  badName, rawpath) IN
    IF ap.exc # "none"
    THEN EditResult(ap.r, ExceptionOutput(ap.exc, "Edit failed"), ap, 0)
    ELSE IF AnyFailed(ap.failures)
    THEN EditResult(ap.r, Out(FALSE, ap.failures), ap, 0)
    ELSE
    LET am == GitCommitAmend(ap.r) IN
    IF am.err # "none"
    THEN EditResult(am.r, ExceptionOutput(am.err, "Edit failed"), ap, 0)
    ELSE
    LET back == GitCheckout(am.r, am.r.prev) IN
    IF back.err # "none"
    THEN EditResult(back.r, ExceptionOutput(back.err, "Edit failed"), ap, HeadCommit(am.r))
    ELSE EditResult(back.r, Out(TRUE, <<Line("Commit edited successfully", "", "")>>),
                    ap, HeadCommit(am.r))

\* inputs of git_edit_commit
BadNameKinds == {"git", "other"}
\* what the diff entries of a call's restore operations may look like
RawPathKinds(file_operations) ==
    IF \E i \in 1..Len(file_operations) : file_operations[i].operation_type = "restore"
    THEN BOOLEAN ELSE {TRUE}
\* a name that resolves to no commit, and every commit of the store
CommitHashes(r) == {BadSha} \cup (1..Len(r.commits))

FileOperations(c) ==
    { FileOperation("modify", "a.txt", "hello", NoValue, c),
      FileOperation("modify", "a.txt", NoValue, NoValue, c),
      FileOperation("delete", "a.txt", NoValue, NoValue, c),
      FileOperation("delete", "missing.txt", NoValue, NoValue, c),
      FileOperation("rename", "a.txt", NoValue, "missing.txt", c),
      FileOperation("restore", "a.txt", NoValue, NoValue, c) }

OperationLists(c) ==
    UNION {[1..n -> FileOperations(c)] : n \in 0..MaxOps}

\* one call of git_edit_commit with an operation list drawn from lists[commit_hash]
EditCall(lists) ==
    \E commit_hash \in CommitHashes(Repo) :
      \E badName \in (IF commit_hash = BadSha THEN BadNameKinds ELSE {"other"}) :
        \E file_operations \in lists[commit_hash] :
         \E rawpath \in RawPathKinds(file_operations) :
          LET e == EditCommit(Repo, commit_hash, file_operations, badName, rawpath) IN
          /\ SetRepo(e.r)
          /\ ret' = e.ret
          /\ call' = Following(call, ret,
                        [NoCall EXCEPT !.op = "edit", !.commit = commit_hash,
                                       !.nops = Len(file_operations),
                                       !.failures = e.failures,
                                       !.attempted = e.attempted,
                                       !.exc = e.exc, !.amended = e.amended])
          /\ ncalls' = ncalls + 1
          /\ UNCHANGED plannerVars

\* ------------------------------------------------------------------------
\* git_abort_rebase
\* ------------------------------------------------------------------------
GitRebaseAbortKeepsHead(r) ==
    IF ~r.rebaseDir THEN Err(r, "git")
    ELSE Ok([r EXCEPT !.conflicts = {}, !.rebaseDir = FALSE, !.todo = <<>>, !.stopped = 0])

\* git rebase --abort
GitRebaseAbort(r) ==
    IF ~r.rebaseDir THEN Err(r, "git")
    ELSE Ok([r EXCEPT !.head = r.orig.head,
                      !.branchTip = r.orig.tip,
                      !.worktree = TreeOf(r, TargetCommit([r EXCEPT !.branchTip = r.orig.tip], r.orig.head)),
                      !.index = TreeOf(r, TargetCommit([r EXCEPT !.branchTip = r.orig.tip], r.orig.head)),
                      !.conflicts = {},
                      !.rebaseDir = FALSE,
                      !.todo = <<>>,
                      !.stopped = 0])

AbortRebaseIgnoringErrors(r) ==
    [r |-> GitRebaseAbort(r).r,
     ret |-> Out(TRUE, <<Line("Rebase aborted successfully.", "", "")>>)]

AbortRebase(r) ==
    LET g == GitRebaseAbort(r) IN
    IF g.err = "git"
    THEN [r |-> g.r, ret |-> Out(FALSE, <<Line("Failed to abort rebase", "", "stderr")>>)]
    ELSE IF g.err # "none"
    THEN [r |-> g.r, ret |-> Out(FALSE, <<Line("An unexpected error occurred", "", "")>>)]
    ELSE [r |-> g.r, ret |-> Out(TRUE, <<Line("Rebase aborted successfully.", "", "")>>)]

git_abort_rebase ==
    LET a == AbortRebase(Repo) IN
    /\ SetRepo(a.r)
    /\ ret' = a.ret
    /\ call' = Following(call, ret, [NoCall EXCEPT !.op = "abort"])
    /\ ncalls' = ncalls + 1
    /\ UNCHANGED plannerVars


\* ------------------------------------------------------------------------
\* git_start_rebase and the git sequencer
\* ------------------------------------------------------------------------
RebaseCommit(sha, action, message) == [sha |-> sha, action |-> action, message |-> message]

\* three-way merge of commit c onto HEAD, per path
MergeBase(r, c) == TreeOf(r, r.commits[c].parent)
ConflictPaths(r, c) ==
    LET B == MergeBase(r, c)
        T == TreeOf(r, c)
        O == TreeOf(r, HeadCommit(r))
    IN {p \in Paths : B[p] # T[p] /\ O[p] # B[p] /\ O[p] # T[p]}
Merged(r, c) ==
    LET B == MergeBase(r, c)
        T == TreeOf(r, c)
        O == TreeOf(r, HeadCommit(r))
    IN [p \in Paths |-> IF B[p] = T[p] THEN O[p] ELSE T[p]]

\* the changes of commit c are already in HEAD: the pick has nothing to commit
BecomesEmpty(r, c) ==
    /\ ConflictPaths(r, c) = {}
    /\ TreeOf(r, c) # MergeBase(r, c)
    /\ Merged(r, c) = TreeOf(r, HeadCommit(r))

\* replay one commit on HEAD: [r, conflict, empty]; the sequencer stops on a
\* conflict and on a pick that became empty
PickCommit(r, step) ==
    LET c == step.sha
        msg == IF step.action = "REWORD" /\ step.message # NoValue
               THEN step.message ELSE r.commits[c].msg
        cp == ConflictPaths(r, c)
        m == Merged(r, c)
    IN IF cp # {}
       THEN [r |-> [r EXCEPT !.index = [p \in Paths |-> IF p \in cp THEN r.index[p] ELSE m[p]],
                             !.worktree = [p \in Paths |-> IF p \in cp THEN Conflicted ELSE m[p]],
                             !.conflicts = cp,
                             !.stopped = c],
             conflict |-> TRUE, empty |-> FALSE]
       ELSE IF BecomesEmpty(r, c)
       THEN [r |-> [r EXCEPT !.stopped = c], conflict |-> FALSE, empty |-> TRUE]
       ELSE LET st == StoreCommit(r, CommitObj(HeadCommit(r), m, msg))
                id == IF r.commits[c].parent = HeadCommit(r) /\ msg = r.commits[c].msg
                      THEN c ELSE st.id
                r1 == IF id = c THEN r ELSE st.r
            IN [r |-> [MoveHead(r1, id) EXCEPT !.index = m, !.worktree = m],
                conflict |-> FALSE, empty |-> FALSE]

\* the rebase is over: the branch takes the rewritten history
FinishRebase(r) ==
    [r EXCEPT !.branchTip = HeadCommit(r), !.head = r.orig.head,
              !.rebaseDir = FALSE, !.todo = <<>>, !.stopped = 0]

\* run the remaining steps until the list is empty, an edit step or a stop
RECURSIVE RunTodo(_)
RECURSIVE AfterPick(_, _)
RunTodo(r) ==
    IF r.todo = <<>> THEN Ok(FinishRebase(r))
    ELSE LET step == Head(r.todo)
             r1 == [r EXCEPT !.todo = Tail(r.todo)]
         IN IF step.action = "DROP" THEN RunTodo(r1)
            ELSE AfterPick(PickCommit(r1, step), step)

\* what the sequencer does with the outcome pk of replaying one step
AfterPick(pk, step) ==
    IF pk.conflict \/ pk.empty THEN Err(pk.r, "git")
    ELSE IF step.action = "EDIT"
    THEN Ok([pk.r EXCEPT !.orig.amend = HeadCommit(pk.r)])
    ELSE RunTodo(pk.r)

Dirty(r) ==
    \E p \in Paths : \/ r.index[p] # TreeOf(r, HeadCommit(r))[p]
                     \/ (r.index[p] # Absent /\ r.worktree[p] # r.index[p])

GitRebaseInteractiveAnyBase(r, base_commit, plan) ==
    IF r.rebaseDir \/ Dirty(r) \/ r.conflicts # {} \/ plan = <<>>
    THEN Err(r, "git")
    ELSE RunTodo([r EXCEPT !.orig = [head |-> r.head, tip |-> r.branchTip, amend |-> 0],
                           !.head = Detached(base_commit),
                           !.index = TreeOf(r, base_commit),
                           !.worktree = TreeOf(r, base_commit),
                           !.rebaseDir = TRUE,
                           !.todo = plan,
                           !.stopped = 0])

\* git rebase -i --autosquash <base>, the plan file fed as the todo list
GitRebaseInteractive(r, base_commit, plan) ==
    IF r.rebaseDir \/ ~Resolves(r, base_commit) \/ Dirty(r) \/ r.conflicts # {} \/ plan = <<>>
    THEN Err(r, "git")
    ELSE LET T == TreeOf(r, base_commit)
             blocked == \E p \in Paths : r.index[p] = Absent /\ r.worktree[p] # Absent
                                         /\ T[p] # Absent
         IN IF blocked THEN Err(r, "git")
            ELSE RunTodo([r EXCEPT !.orig = [head |-> r.head, tip |-> r.branchTip, amend |-> 0],
                                   !.head = Detached(base_commit),
                                   !.index = T,
                                   !.worktree = [p \in Paths |->
                                        IF r.index[p] = Absent /\ T[p] = Absent
                                        THEN r.worktree[p] ELSE T[p]],
                                   !.rebaseDir = TRUE,
                                   !.todo = plan,
                                   !.stopped = 0])

StartRebase(r, base_commit, plan) ==
    LET g == GitRebaseInteractive(r, base_commit, plan) IN
    IF g.err = "git"
    THEN [r |-> g.r, ret |-> Out(FALSE, <<Line("Rebase failed", "", "stderr")>>)]
    ELSE IF g.err # "none"
    THEN [r |-> g.r, ret |-> Out(FALSE, <<Line("An unexpected error occurred", "", "")>>)]
    ELSE IF g.r.conflicts # {}
    THEN [r |-> g.r, ret |-> Output(TRUE, <<Line("Rebase started with conflicts", "", "")>>,
                                    g.r.conflicts)]
    ELSE [r |-> g.r, ret |-> Out(TRUE, <<Line("Rebase started successfully.", "", "")>>)]

PlanSteps ==
    { RebaseCommit(2, "PICK", NoValue), RebaseCommit(3, "PICK", NoValue),
      RebaseCommit(2, "EDIT", NoValue), RebaseCommit(2, "DROP", NoValue),
      RebaseCommit(3, "REWORD", "fix: typo") }
Plans == UNION {[1..n -> PlanSteps] : n \in 0..MaxPlan}

\* one call of git_start_rebase(base_commit, rebase_plan)
StartRebaseCall(base_commit, plan) ==
    LET s == StartRebase(Repo, base_commit, plan) IN
    /\ SetRepo(s.r)
    /\ ret' = s.ret
    /\ call' = Following(call, ret, [NoCall EXCEPT !.op = "start", !.commit = base_commit,
                                                   !.noPause = NoPause(plan)])
    /\ ncalls' = ncalls + 1
    /\ UNCHANGED plannerVars

git_start_rebase ==
    \E base_commit \in 0..1, plan \in Plans : StartRebaseCall(base_commit, plan)

\* ------------------------------------------------------------------------
\* git_resume_rebase
\* ------------------------------------------------------------------------
\* what git writes to stderr, and whether the word "conflicts" occurs in it
Stderr(text, mentionsConflicts) == [text |-> text, conflicts |-> mentionsConflicts]
NoStderr == Stderr("", FALSE)
\* "fatal: No rebase in progress?"
NoRebaseInProgress == Stderr("No rebase in progress?", FALSE)
\* "You have uncommitted changes in your working tree. Please, commit them first"
UncommittedChanges == Stderr("You have uncommitted changes in your working tree", FALSE)
\* "error: could not apply ... hint: Resolve all conflicts manually, mark them ..."
CouldNotApply == Stderr("could not apply: Resolve all conflicts manually", TRUE)
\* "The previous cherry-pick is now empty, possibly due to conflict resolution."
\* followed by the status text "(all conflicts fixed: run git rebase --continue)"
NowEmpty == Stderr("The previous cherry-pick is now empty (all conflicts fixed)", TRUE)

GitResult(r, err, stderr) == [r |-> r, err |-> err, stderr |-> stderr]

Unstaged(r) == \E p \in Paths : r.index[p] # Absent /\ r.worktree[p] # r.index[p]
Staged(r) == r.index # TreeOf(r, HeadCommit(r))

\* the sequencer commits what is staged before it goes on: into the commit an
\* edit step stopped on if HEAD is still that commit, as the commit of the
\* step it stopped on otherwise
CommitStagedChanges(r) ==
    IF ~Staged(r) THEN GitResult(r, "none", NoStderr)
    ELSE IF r.orig.amend # 0
    THEN IF r.orig.amend = HeadCommit(r)
         THEN GitResult(GitCommitAmend(r).r, "none", NoStderr)
         ELSE GitResult(r, "git", UncommittedChanges)
    ELSE IF r.stopped # 0
    THEN LET st == StoreCommit(r, CommitObj(HeadCommit(r), r.index, r.commits[r.stopped].msg))
         IN GitResult(MoveHead(st.r, st.id), "none", NoStderr)
    ELSE GitResult(r, "git", UncommittedChanges)

\* with unmerged or unstaged paths git refuses to continue
ContinueRefusedNever(r) == FALSE
ContinueRefused(r) == r.conflicts # {} \/ Unstaged(r)

\* git rebase --continue. When it refuses, git prints "needs merge / You must
\* edit all merge conflicts and then mark them as resolved using git add" on
\* stdout: stderr is empty.
\* exit status and stderr of a sequencer run: it stops with an error on a
\* conflict and on a pick that became empty
SequencerResult(run) ==
    IF run.err = "none" THEN GitResult(run.r, "none", NoStderr)
    ELSE IF run.r.conflicts # {} THEN GitResult(run.r, "git", CouldNotApply)
    ELSE GitResult(run.r, "git", NowEmpty)

\* go on with the remaining steps once the staged changes are committed (c)
ContinueTodo(c) ==
    IF c.err # "none" THEN c
    ELSE SequencerResult(RunTodo([c.r EXCEPT !.stopped = 0, !.orig.amend = 0]))

GitRebaseContinue(r) ==
    IF ~r.rebaseDir THEN GitResult(r, "git", NoRebaseInProgress)
    ELSE IF ContinueRefused(r) THEN GitResult(r, "git", NoStderr)
    ELSE ContinueTodo(CommitStagedChanges(r))

ResumeRebaseLikeFinish(r) ==
    IF ~r.rebaseDir
    THEN [r |-> r, ret |-> Out(TRUE, <<Line("Rebase completed successfully.", "", "")>>)]
    ELSE LET g == GitRebaseContinue(r) IN
         IF g.err # "none"
         THEN [r |-> g.r, ret |-> Out(FALSE, <<Line("Rebase paused due to", "", g.stderr.text)>>)]
         ELSE [r |-> g.r, ret |-> Out(TRUE, <<Line("Rebase completed successfully.", "", "")>>)]

\* the output of git_resume_rebase for the outcome g of rebase --continue
ResumeOutput(g) ==
    IF g.err = "git"
    THEN IF ~g.stderr.conflicts
         THEN [r |-> g.r, ret |-> Out(FALSE, <<Line("Rebase paused due to", "", g.stderr.text)>>)]
         ELSE [r |-> g.r, ret |-> Out(FALSE, <<Line("Rebase paused due to conflicts", "",
                                                     g.stderr.text)>>)]
    ELSE IF g.err # "none"
    THEN [r |-> g.r, ret |-> Out(FALSE, <<Line("An unexpected error occurred", "", "")>>)]
    ELSE IF ~g.r.rebaseDir
    THEN [r |-> g.r, ret |-> Out(TRUE, <<Line("Rebase completed successfully.", "", "")>>)]
    ELSE IF g.r.conflicts # {}
    THEN [r |-> g.r, ret |-> Output(FALSE, <<Line("Rebase paused due to new conflicts", "", "")>>,
                                    g.r.conflicts)]
    ELSE [r |-> g.r,
          ret |-> Out(TRUE, <<Line("Rebase continued, but there are more commits to process.",
                                   "", "")>>)]

ResumeRebase(r) == ResumeOutput(GitRebaseContinue(r))

git_resume_rebase ==
    \E c \in {ResumeRebase(Repo)} :
    /\ SetRepo(c.r)
    /\ ret' = c.ret
    /\ call' = Following(call, ret, [NoCall EXCEPT !.op = "resume"])
    /\ ncalls' = ncalls + 1
    /\ UNCHANGED plannerVars

\* ------------------------------------------------------------------------
\* git_finish_rebase
\* ------------------------------------------------------------------------
\* the output of git_finish_rebase: with a rebase directory it runs
\* rebase --continue and looks at the conflicts of the index only
FinishRebaseOutput(r) ==
    IF ~r.rebaseDir
    THEN [r |-> r, ret |-> Out(TRUE, <<Line("Rebase completed successfully.", "", "")>>)]
    ELSE LET g == GitRebaseContinue(r) IN
         IF g.err = "git"
         THEN [r |-> g.r, ret |-> Out(FALSE, <<Line("Failed to finish rebase", "", g.stderr.text)>>)]
         ELSE IF g.err # "none"
         THEN [r |-> g.r, ret |-> Out(FALSE, <<Line("An unexpected error occurred", "", "")>>)]
         ELSE IF g.r.conflicts # {}
         THEN [r |-> g.r, ret |-> Output(FALSE, <<Line("Rebase paused due to new conflicts", "", "")>>,
                                         g.r.conflicts)]
         ELSE [r |-> g.r, ret |-> Out(TRUE, <<Line("Rebase completed successfully.", "", "")>>)]

git_finish_rebase ==
    \E c \in {FinishRebaseOutput(Repo)} :
    /\ SetRepo(c.r)
    /\ ret' = c.ret
    /\ call' = Following(call, ret, [NoCall EXCEPT !.op = "finish"])
    /\ ncalls' = ncalls + 1
    /\ UNCHANGED plannerVars

\* ------------------------------------------------------------------------
\* git_resolve_conflicts
\* ------------------------------------------------------------------------
MergeStrategy(file_path, content) == [file_path |-> file_path, content |-> content]

\* the for loop of git_resolve_conflicts from resolution i on
RECURSIVE ApplyResolutions(_, _, _)
ApplyResolutions(file_resolutions, i, g) ==
    IF i > Len(file_resolutions) \/ g.err # "none" THEN g
    ELSE ApplyResolutions(file_resolutions, i + 1,
            GitAdd(WriteText(g.r, file_resolutions[i].file_path, file_resolutions[i].content),
                   file_resolutions[i].file_path))

ResolveConflictsUnchecked(r, file_resolutions) ==
    LET g == ApplyResolutions(file_resolutions, 1, Ok(r)) IN
    IF g.err # "none"
    THEN [r |-> g.r, ret |-> Out(FALSE, <<Line("Conflict resolution failed", "", "stderr")>>)]
    ELSE [r |-> g.r, ret |-> Out(TRUE, <<Line("Conflicts resolved successfully.", "", "")>>)]

ResolveConflictsAndContinue(r, file_resolutions) ==
    IF ~r.rebaseDir \/ r.conflicts = {}
    THEN [r |-> r, ret |-> Out(FALSE, <<Line("Error: No conflicts to resolve.", "", "")>>)]
    ELSE LET g == ApplyResolutions(file_resolutions, 1, Ok(r)) IN
         IF g.err # "none"
         THEN [r |-> g.r, ret |-> Out(FALSE, <<Line("Conflict resolution failed", "", "stderr")>>)]
         ELSE [r |-> GitRebaseContinue(g.r).r,
               ret |-> Out(TRUE, <<Line("Conflicts resolved successfully.", "", "")>>)]

ResolveConflictsStagesAll(r, file_resolutions) ==
    IF ~r.rebaseDir \/ r.conflicts = {}
    THEN [r |-> r, ret |-> Out(FALSE, <<Line("Error: No conflicts to resolve.", "", "")>>)]
    ELSE LET g == ApplyResolutions(file_resolutions, 1, Ok(r)) IN
         IF g.err # "none"
         THEN [r |-> g.r, ret |-> Out(FALSE, <<Line("Conflict resolution failed", "", "stderr")>>)]
         ELSE [r |-> [g.r EXCEPT !.index = g.r.worktree, !.conflicts = {}],
               ret |-> Out(TRUE, <<Line("Conflicts resolved successfully.", "", "")>>)]

ResolveConflicts(r, file_resolutions) ==
    IF ~r.rebaseDir
    THEN [r |-> r, ret |-> Out(FALSE, <<Line("Error: No rebase in progress.", "", "")>>)]
    ELSE IF r.conflicts = {}
    THEN [r |-> r, ret |-> Out(FALSE, <<Line("Error: No conflicts to resolve.", "", "")>>)]
    ELSE LET g == ApplyResolutions(file_resolutions, 1, Ok(r)) IN
         IF g.err = "git"
         THEN [r |-> g.r, ret |-> Out(FALSE, <<Line("Conflict resolution failed", "", "stderr")>>)]
         ELSE IF g.err # "none"
         THEN [r |-> g.r, ret |-> Out(FALSE, <<Line("An unexpected error occurred", "", "")>>)]
         ELSE [r |-> g.r, ret |-> Out(TRUE, <<Line("Conflicts resolved successfully.", "", "")>>)]

\* inputs of git_resolve_conflicts
FileResolutions ==
    { <<>>,
      <<MergeStrategy("a.txt", "v2")>>,
      <<MergeStrategy("a.txt", "hello")>>,
      <<MergeStrategy("missing.txt", "v1")>>,
      <<MergeStrategy("a.txt", "v1"), MergeStrategy("missing.txt", "v1")>> }

git_resolve_conflicts ==
    \E file_resolutions \in FileResolutions :
        LET c == ResolveConflicts(Repo, file_resolutions) IN
        /\ SetRepo(c.r)
        /\ ret' = c.ret
        /\ call' = Following(call, ret, [NoCall EXCEPT !.op = "resolve",
                                                       !.nops = Len(file_resolutions)])
        /\ ncalls' = ncalls + 1
        /\ UNCHANGED plannerVars


\* ------------------------------------------------------------------------
\* The planner call (src/src/rebaser/llm.py) and the agent turn
\* (src/src/rebaser/agent.py)
\* ------------------------------------------------------------------------
MaxRetryAttempt == 3

\* RebaseCommit fields as the planner may send them: sha by length and by
\* whether it names a commit of the history given in the prompt
Sha(len, inHistory) == [len |-> len, inHistory |-> inHistory]
RawShas == {Sha(6, TRUE), Sha(7, TRUE), Sha(7, FALSE), Sha(40, TRUE), Sha(41, TRUE)}
RawActionNames == {"PICK", "MERGE"}
RawMessages == {NoValue, "", "fix: typo"}
RawActions == {RebaseCommit(s, a, m) : s \in RawShas, a \in RawActionNames, m \in RawMessages}

ActionLiterals == {"PICK", "REWORD", "EDIT", "SQUASH", "FIXUP", "DROP"}
MinShaLen == 7
MaxShaLen == 40

RebaseCommitValidNoLength(a) ==
    /\ a.action \in ActionLiterals
    /\ (a.message = NoValue \/ a.message # "")

\* pydantic validation of one RebaseCommit
RebaseCommitValid(a) ==
    /\ a.sha.len >= MinShaLen
    /\ a.sha.len <= MaxShaLen
    /\ a.action \in ActionLiterals
    /\ (a.message = NoValue \/ a.message # "")

\* response texts, as tokens: brackets, braces of an object, a valid action
\* object "A", an action object that does not validate "X", prose "x"
Tokens == {"[", "]", "{", "}", "A", "X", "x"}
Texts == UNION {[1..n -> Tokens] : n \in 0..MaxText}

ValidAction == RebaseCommit(Sha(7, TRUE), "PICK", NoValue)
InvalidAction == RebaseCommit(Sha(6, TRUE), "PICK", NoValue)

\* str.find / str.rfind over tokens, 0-based, -1 when absent
Find2(text, a, b) ==
    IF \E i \in 1..(Len(text) - 1) : text[i] = a /\ text[i + 1] = b
    THEN (CHOOSE i \in 1..(Len(text) - 1) :
            /\ text[i] = a /\ text[i + 1] = b
            /\ \A j \in 1..(i - 1) : ~(text[j] = a /\ text[j + 1] = b)) - 1
    ELSE -1
Find1(text, a) ==
    IF \E i \in 1..Len(text) : text[i] = a
    THEN (CHOOSE i \in 1..Len(text) :
            text[i] = a /\ \A j \in 1..(i - 1) : text[j] # a) - 1
    ELSE -1
RFind1(text, a) ==
    IF \E i \in 1..Len(text) : text[i] = a
    THEN (CHOOSE i \in 1..Len(text) :
            text[i] = a /\ \A j \in (i + 1)..Len(text) : text[j] # a) - 1
    ELSE -1
\* text[start:end] with 0-based start and exclusive end
Slice(text, start, end) == SubSeq(text, start + 1, end)

\* the items of a JSON array "[" item ("," item)* "]"; commas are implied
\* between adjacent items
IsArray(json) ==
    /\ Len(json) >= 2
    /\ json[1] = "[" /\ json[Len(json)] = "]"
    /\ \A i \in 2..(Len(json) - 1) : json[i] \in {"A", "X"}
ArrayItems(json) ==
    [i \in 1..(Len(json) - 2) |-> IF json[i + 1] = "A" THEN ValidAction ELSE InvalidAction]
\* a JSON object {"plan": [...]}
IsPlanObject(json) ==
    /\ Len(json) >= 4
    /\ json[1] = "{" /\ json[Len(json)] = "}"
    /\ IsArray(SubSeq(json, 2, Len(json) - 1))

Failed == [ok |-> FALSE, plan |-> <<>>]
Parsed(p) == [ok |-> TRUE, plan |-> p]

\* RebasePlan.model_validate_json: the model is an object with a plan field
ModelValidateJson(json) ==
    IF IsPlanObject(json)
       /\ \A a \in {ArrayItems(SubSeq(json, 2, Len(json) - 1))[i] :
                      i \in 1..(Len(json) - 4)} : RebaseCommitValid(a)
    THEN Parsed(ArrayItems(SubSeq(json, 2, Len(json) - 1)))
    ELSE Failed

validate_llm_response(response_text) ==
    LET json_start == Find2(response_text, "[", "]")
        json_end == RFind1(response_text, "]") + 1
    IN IF json_start = -1 \/ json_end <= json_start THEN Failed
       ELSE ModelValidateJson(Slice(response_text, json_start, json_end))

\* the structured value of a response: the list when every element validates
\* against the response schema list[RebaseCommit], otherwise None
ResponseParsed(raw) ==
    IF \A i \in 1..Len(raw) : RebaseCommitValid(raw[i]) THEN raw ELSE <<>>

ApiError == [kind |-> "api_error", raw |-> <<>>, text |-> <<>>, sends |-> 1]
Reply(raw, text) == [kind |-> "reply", raw |-> raw, text |-> text, sends |-> 1]
NoResponse == [kind |-> "none", raw |-> <<>>, text |-> <<>>, sends |-> 0]

RawLists == UNION {[1..n -> RawActions] : n \in 0..MaxActions}
\* the replies that carry a structured value, and those that carry text only
ParsedReplies == {Reply(raw, <<>>) : raw \in RawLists}
TextReplies == {Reply(<<>>, t) : t \in Texts}
Responses == (ParsedReplies \cup TextReplies) \cup {ApiError}

\* what the body of call_llm makes of a reply
HandleReply(resp) ==
    IF ResponseParsed(resp.raw) # <<>> THEN Parsed(ResponseParsed(resp.raw))
    ELSE IF resp.text # <<>> THEN validate_llm_response(resp.text)
    ELSE Failed

\* `if attempt > 3: raise`
ShouldPropagateLate(att) == att > MaxRetryAttempt + 1
ShouldPropagate(att) == att > MaxRetryAttempt

\* `sleep_time = attempt**2`
SleepTimeDouble(att) == 2 * att
SleepTime(att) == att * att

\* `except APIError`: the only exception the retry handles
IsTransientOrInvalid(resp) == resp.kind = "api_error" \/ ~HandleReply(resp).ok
IsTransient(resp) == resp.kind = "api_error"

\* the except APIError clause shared by call_llm and agent_loop
OnApiError ==
    /\ apiErrors' = apiErrors + 1
    /\ IF ShouldPropagate(attempt)
       THEN /\ pc' = "done"
            /\ outcome' = "api_error"
            /\ UNCHANGED <<attempt, waits>>
       ELSE /\ waits' = Append(waits, SleepTime(attempt))
            /\ attempt' = attempt + 1
            /\ pc' = "call"
            /\ UNCHANGED outcome

\* one invocation of call_llm(client, prompt, attempt)
call_llm ==
    /\ mode = "plan"
    /\ pc = "call"
    /\ \E resp \in Responses :
        /\ response' = resp
        /\ llmCalls' = llmCalls + 1
        /\ IF IsTransient(resp)
           THEN OnApiError /\ UNCHANGED result
           ELSE LET h == HandleReply(resp) IN
                /\ pc' = "done"
                /\ outcome' = IF h.ok THEN "plan" ELSE "validation_error"
                /\ result' = h.plan
                /\ UNCHANGED <<attempt, waits, apiErrors>>
    /\ UNCHANGED <<mode, toolCalls, planFile, driver, locals>>
    /\ UNCHANGED engineVars

\* what the planner answers in a turn: a function call with a name ("named"),
\* an answer without one ("unnamed"), or APIError; sends counts the messages
\* this invocation of agent_loop has sent
TurnResponse(kind, sends) == [kind |-> kind, raw |-> <<>>, text |-> <<>>, sends |-> sends]

\* the answers drawn for the message after `sends` messages: the re-prompts
\* of one invocation are capped at MaxReprompts
TurnAnswers(sends) ==
    IF sends < MaxReprompts THEN {"named", "unnamed", "api_error"}
    ELSE {"named", "api_error"}

\* a get_function_call that returns whatever the response holds
AnyFunction(resp) == TRUE

\* `calls := response.function_calls` and `function.name` of the first call
NamesFunction(resp) == resp.kind = "named"

\* `response = await agent.send_message(message=query)` of agent_loop
send_message ==
    /\ mode = "turn"
    /\ pc = "call"
    /\ \E kind \in TurnAnswers(0) :
        /\ response' = TurnResponse(kind, 1)
        /\ llmCalls' = llmCalls + 1
        /\ IF kind = "api_error"
           THEN OnApiError
           ELSE /\ pc' = "function"
                /\ UNCHANGED <<attempt, waits, apiErrors, outcome>>
    /\ UNCHANGED <<mode, result, toolCalls, planFile, driver, locals>>
    /\ UNCHANGED engineVars

\* one invocation of get_function_call(response, agent): it returns the
\* function the response names, or sends "Function must have a name" and
\* calls itself with the answer; an APIError goes to agent_loop's handler
get_function_call ==
    /\ mode = "turn"
    /\ pc = "function"
    /\ IF NamesFunction(response)
       THEN /\ pc' = "tool"
            /\ UNCHANGED <<response, llmCalls, attempt, waits, apiErrors, outcome>>
       ELSE \E kind \in TurnAnswers(response.sends) :
            /\ response' = TurnResponse(kind, response.sends + 1)
            /\ llmCalls' = llmCalls + 1
            /\ IF kind = "api_error"
               THEN OnApiError
               ELSE UNCHANGED <<pc, attempt, waits, apiErrors, outcome>>
    /\ UNCHANGED <<mode, result, toolCalls, planFile, driver, locals>>
    /\ UNCHANGED engineVars

\* a dispatch whose failure is handled by the retry like an APIError of the
\* planner: the operation has run when the turn starts over
CallToolRetried ==
    /\ mode = "turn"
    /\ pc = "tool"
    /\ toolCalls' = toolCalls + 1
    /\ \/ pc' = "done" /\ outcome' = "returned" /\ UNCHANGED <<attempt, waits, apiErrors>>
       \/ OnApiError
    /\ UNCHANGED <<mode, llmCalls, response, result, planFile, driver, locals>>
    /\ UNCHANGED engineVars

\* `result = await server.call_tool(function.name, function.args)` and the
\* return of agent_loop
call_tool ==
    /\ mode = "turn"
    /\ pc = "tool"
    /\ toolCalls' = toolCalls + 1
    /\ pc' = "done"
    /\ outcome' = "returned"
    /\ UNCHANGED <<mode, attempt, llmCalls, apiErrors, waits, response, result, planFile, driver, locals>>
    /\ UNCHANGED engineVars

\* one turn of agent_loop(query, agent, server, attempt), step by step
agent_loop == send_message \/ get_function_call \/ call_tool

\* ------------------------------------------------------------------------
\* write_plan: the sequencer file of a plan (src/src/rebaser/rebase.py,
\* src/src/rebaser/main.py, src/src/rebaser/__main__.py)
\* ------------------------------------------------------------------------
\* a message of two lines ("subject\nbody"), and the lines of a message
TwoLineMessage == "subject+body"
MessageLines(message) ==
    IF message = TwoLineMessage THEN <<"subject", "body">> ELSE <<message>>

\* a string is the sequence of its lines, a line the sequence of its words
\* `line = f"{command.action} {command.sha}"`
CommandLine(command) == <<<<command.action, command.sha>>>>
\* `line += f" # {command.message}"`
WithMessage(line, message) ==
    <<line[1] \o <<"#", MessageLines(message)[1]>>>>
        \o [j \in 1..(Len(MessageLines(message)) - 1) |-> <<MessageLines(message)[j + 1]>>]

\* "\n".join(commands), as the lines of the text written
RECURSIVE Join(_)
Join(commands) ==
    IF commands = <<>> THEN <<>> ELSE Head(commands) \o Join(Tail(commands))

\* the loop of write_plan in rebase.py from command i on: the action is
\* compared with "reword" and the append is inside the if
RECURSIVE RebaseCommands(_, _, _)
RebaseCommands(plan, i, commands) ==
    IF i > Len(plan) THEN commands
    ELSE IF plan[i].action = "reword" /\ plan[i].message # NoValue
    THEN RebaseCommands(plan, i + 1,
             Append(commands, WithMessage(CommandLine(plan[i]), plan[i].message)))
    ELSE RebaseCommands(plan, i + 1, commands)

\* write_plan of rebase.py
write_plan(plan) == Join(RebaseCommands(plan, 1, <<>>))

\* the loop of write_plan in main.py and __main__.py from command i on
RECURSIVE MainCommands(_, _, _)
MainCommands(plan, i, commands) ==
    IF i > Len(plan) THEN commands
    ELSE IF plan[i].action = "REWORD" /\ plan[i].message # NoValue
    THEN MainCommands(plan, i + 1,
             Append(commands, WithMessage(CommandLine(plan[i]), plan[i].message)))
    ELSE MainCommands(plan, i + 1, Append(commands, CommandLine(plan[i])))

\* write_plan of main.py and __main__.py
main_write_plan(plan) == Join(MainCommands(plan, 1, <<>>))

\* the plans write_plan is given: lists of validated RebaseCommit
PlanShas == {Sha(7, TRUE), Sha(40, TRUE)}
PlanMessages == {NoValue, "fix: typo", TwoLineMessage}
PlanCommits ==
    {RebaseCommit(s, a, m) : s \in PlanShas, a \in ActionLiterals, m \in PlanMessages}
RebasePlans == {SubSeq(p, 1, n) : p \in [1..MaxPlan -> PlanCommits], n \in 0..MaxPlan}

\* one run of write_plan on the plan in result
WritePlanRebase ==
    /\ mode = "write"
    /\ pc = "call"
    /\ planFile' = write_plan(result)
    /\ outcome' = "rebase.py"
    /\ pc' = "done"
    /\ UNCHANGED <<mode, attempt, llmCalls, apiErrors, waits, response, result, toolCalls, driver, locals>>
    /\ UNCHANGED engineVars

WritePlanMain ==
    /\ mode = "write"
    /\ pc = "call"
    /\ planFile' = main_write_plan(result)
    /\ outcome' = "main.py"
    /\ pc' = "done"
    /\ UNCHANGED <<mode, attempt, llmCalls, apiErrors, waits, response, result, toolCalls, driver, locals>>
    /\ UNCHANGED engineVars

PlannerIdle ==
    /\ mode = "none"
    /\ pc = "done"
    /\ attempt = 0
    /\ llmCalls = 0
    /\ apiErrors = 0
    /\ waits = <<>>
    /\ response = NoResponse
    /\ outcome = "none"
    /\ result = <<>>
    /\ toolCalls = 0
    /\ planFile = <<>>
    /\ driver = NoDriver
    /\ locals = NoLocals

\* ------------------------------------------------------------------------
\* The tool manager on a repository
\* ------------------------------------------------------------------------
InitRepo ==
    [commits |-> InitCommits, branchTip |-> 3, head |-> OnBranch, prev |-> NoPrev,
     worktree |-> InitCommits[3].tree, index |-> InitCommits[3].tree,
     conflicts |-> {}, rebaseDir |-> FALSE, todo |-> <<>>, stopped |-> 0,
     orig |-> [head |-> OnBranch, tip |-> 3, amend |-> 0]]

\* the rebase of the branch onto its root stopped at the edit step of commit 2
PausedRepo ==
    StartRebase(InitRepo, 1, <<RebaseCommit(2, "EDIT", NoValue),
                               RebaseCommit(3, "PICK", NoValue)>>).r

InitEngine(r) ==
    /\ commits = r.commits
    /\ branchTip = r.branchTip
    /\ head = r.head
    /\ prev = r.prev
    /\ worktree = r.worktree
    /\ index = r.index
    /\ conflicts = r.conflicts
    /\ rebaseDir = r.rebaseDir
    /\ todo = r.todo
    /\ stopped = r.stopped
    /\ orig = r.orig
    /\ call = NoCall
    /\ ret = Out(TRUE, <<>>)
    /\ ncalls = 0

InitWith(r) == InitEngine(r) /\ PlannerIdle

Init == \E r \in {InitRepo, PausedRepo} : InitWith(r)

\* the operation lists the session specification edits with
SessionLists(c) ==
    { <<>>,
      <<FileOperation("modify", "a.txt", "hello", NoValue, c)>>,
      <<FileOperation("delete", "missing.txt", NoValue, NoValue, c)>> }

git_edit_commit == ncalls < MaxCalls /\ EditCall([c \in CommitHashes(Repo) |-> SessionLists(c)])
StartCall == ncalls < MaxCalls /\ git_start_rebase
AbortCall == ncalls < MaxCalls /\ git_abort_rebase

Next ==
    \/ StartCall
    \/ git_edit_commit
    \/ AbortCall

Spec == Init /\ [][Next]_vars

\* ------------------------------------------------------------------------
\* git_edit_commit alone, with every operation list up to MaxOps, on a clean
\* checkout of the branch or in a rebase stopped at an edit step
\* ------------------------------------------------------------------------
\* the branch after an edit of commit 2 that failed on its second operation
FailedEditRepo ==
    EditCommit(InitRepo, 2, <<FileOperation("modify", "a.txt", "hello", NoValue, 2),
                              FileOperation("delete", "missing.txt", NoValue, NoValue, 2)>>,
               "other", TRUE).r

InitEdit == \E r \in {InitRepo, PausedRepo, FailedEditRepo} : InitWith(r)

EditAny == ncalls < MaxEdits /\ EditCall([c \in CommitHashes(Repo) |-> OperationLists(c)])

NextEdit == EditAny

SpecEdit == InitEdit /\ [][NextEdit]_vars

\* ------------------------------------------------------------------------
\* A rebase session on a history whose commits conflict when reordered:
\* start, edit, resolve, resume and abort, MaxSteps calls
\* ------------------------------------------------------------------------
SessionCommits ==
    << CommitObj(0, [EmptyTree EXCEPT !["a.txt"] = "v1"], "m1"),
       CommitObj(1, [EmptyTree EXCEPT !["a.txt"] = "v2"], "m2"),
       CommitObj(2, [EmptyTree EXCEPT !["a.txt"] = "hello"], "m3") >>

SessionRepo ==
    [InitRepo EXCEPT !.commits = SessionCommits,
                     !.worktree = SessionCommits[3].tree,
                     !.index = SessionCommits[3].tree]

InitSession == InitWith(SessionRepo)

\* the start calls of the session: every plan on the base the history has;
\* on a base that resolves to nothing git stops before it reads the plan, so
\* the plans of at most one step stand for all
SessionStarts ==
    ({1} \X Plans) \cup ({0} \X {plan \in Plans : Len(plan) <= 1})
SessionStart ==
    ncalls < MaxSteps /\ \E s \in SessionStarts : StartRebaseCall(s[1], s[2])
SessionEdit ==
    ncalls < MaxSteps /\ EditCall([c \in CommitHashes(Repo) |-> SessionLists(c)])
SessionResolve == ncalls < MaxSteps /\ git_resolve_conflicts
SessionResume == ncalls < MaxSteps /\ git_resume_rebase
SessionAbort == ncalls < MaxSteps /\ git_abort_rebase

NextSession ==
    \/ SessionStart
    \/ SessionEdit
    \/ SessionResolve
    \/ SessionResume
    \/ SessionAbort

SpecSession == InitSession /\ [][NextSession]_vars

\* ------------------------------------------------------------------------
\* A session that is started and then finished
\* ------------------------------------------------------------------------
MaxFinishCalls == 2

\* the plans of the session: those of Plans and those that also stop for an
\* edit at the last commit
FinishPlans ==
    UNION {[1..n -> PlanSteps \cup {RebaseCommit(3, "EDIT", NoValue)}] : n \in 0..MaxPlan}

FinishStart ==
    ncalls < MaxFinishCalls /\ \E plan \in FinishPlans : StartRebaseCall(1, plan)
FinishCall == ncalls < MaxFinishCalls /\ git_finish_rebase

InitFinish == InitWith(SessionRepo)
NextFinish == FinishStart \/ FinishCall
SpecFinish == InitFinish /\ [][NextFinish]_vars

\* C34: git_finish_rebase reports "Rebase completed successfully" only when
\* no rebase directory remains afterwards; while the rewrite is still paused
\* after the continuation it does not report completion.
C34_FinishMeansNoArtifacts ==
    [][ (call'.op = "finish" /\ ncalls' = ncalls + 1 /\ ret'.success)
        => ~rebaseDir' ]_vars

\* ------------------------------------------------------------------------
\* One planner run: generate_plan (call_llm) or one agent turn (agent_loop)
\* ------------------------------------------------------------------------
InitPlanner ==
    /\ InitEngine(InitRepo)
    /\ mode \in {"plan", "turn"}
    /\ pc = "call"
    /\ attempt = 0
    /\ llmCalls = 0
    /\ apiErrors = 0
    /\ waits = <<>>
    /\ response = NoResponse
    /\ outcome = "none"
    /\ result = <<>>
    /\ toolCalls = 0
    /\ planFile = <<>>
    /\ driver = NoDriver
    /\ locals = NoLocals

NextPlanner == call_llm \/ agent_loop

SpecPlanner == InitPlanner /\ [][NextPlanner]_vars

\* ------------------------------------------------------------------------
\* One run of write_plan on a validated plan
\* ------------------------------------------------------------------------
InitPlanFile ==
    /\ InitEngine(InitRepo)
    /\ mode = "write"
    /\ pc = "call"
    /\ attempt = 0
    /\ llmCalls = 0
    /\ apiErrors = 0
    /\ waits = <<>>
    /\ response = NoResponse
    /\ outcome = "none"
    /\ result \in RebasePlans
    /\ toolCalls = 0
    /\ planFile = <<>>
    /\ driver = NoDriver
    /\ locals = NoLocals

NextPlanFile == WritePlanRebase \/ WritePlanMain

SpecPlanFile == InitPlanFile /\ [][NextPlanFile]_vars

\* ------------------------------------------------------------------------
\* Properties
\* ------------------------------------------------------------------------
EditStep == call'.op = "edit" /\ ncalls' = ncalls + 1
AbortStep == call'.op = "abort" /\ ncalls' = ncalls + 1
Upto(n) == [i \in 1..n |-> i]

\* C1: when an operation of edit() reports a failure, the amend does not run
\* (the object store and the branch are unchanged), the call returns
\* success=false, and HEAD stays checked out on the commit under edit.
C1_FailedEditSkipsAmend ==
    [][ (EditStep /\ call'.failures # <<>>)
        => /\ call'.amended = BadSha
           /\ commits' = commits
           /\ branchTip' = branchTip
           /\ ret'.raised = "none"
           /\ ret'.success = FALSE
           /\ head' = Detached(call'.commit) ]_vars

\* an edit of two operations, one applied and staged, the other failed
C1_Witness ==
    /\ call.op = "edit"
    /\ call.nops = 2
    /\ Len(call.failures) = 1
    /\ call.exc = "none"
    /\ index # TreeOf(Repo, call.commit)
    /\ head = Detached(call.commit)
    /\ ~ret.success

\* C2 as stated: once the loop is entered every operation is attempted, also
\* after a backend error, and the message is the list of failure texts.
C2_EveryOperationAttempted ==
    (call.op = "edit" /\ call.attempted # <<>>)
    => /\ call.attempted = Upto(call.nops)
       /\ (call.failures # <<>> \/ call.exc # "none")
            => (ret.success = FALSE /\ ret.message = call.failures)

\* C2 amended: operations are attempted in list order and the loop goes on
\* after an operation that reported a failure; if no operation raises, all are
\* attempted and a failing call returns exactly the collected failure texts in
\* list order; an operation that raises a backend error ends the loop, the
\* later operations are not attempted and the message is that of the error.
C2_AttemptedUntilBackendError ==
    (call.op = "edit" /\ call.attempted # <<>>)
    => /\ call.attempted = Upto(Len(call.attempted))
       /\ Len(call.attempted) <= call.nops
       /\ Len(call.failures) <= Len(call.attempted)
       /\ call.exc = "none"
            => /\ call.attempted = Upto(call.nops)
               /\ call.failures # <<>>
                    => ret = Out(FALSE, call.failures)
       /\ call.exc # "none"
            => /\ ret.success = FALSE
               /\ Len(ret.message) = 1
               /\ ret.message # call.failures
               /\ call.amended = BadSha

\* the first operation failed its precondition and the second was still run
C2_Witness ==
    /\ call.op = "edit"
    /\ call.nops = 2
    /\ call.attempted = <<1, 2>>
    /\ call.exc = "none"
    /\ Len(call.failures) = 2
    /\ ret.message = <<Line("Cannot modify", "a.txt", "No content provided"),
                       Line("Cannot delete", "missing.txt", "file does not exist")>>

CleanCheckout(r) == ~Dirty(r) /\ r.conflicts = {}

\* C3: after an edit of commit c that failed from a clean checkout, every
\* operation list that makes a second edit of c succeed yields the commit a
\* first edit of c with that list would have produced.
C3_FailedEditIdempotent ==
    [][ (EditStep /\ call'.failures # <<>> /\ CleanCheckout(Repo))
        => \A ops2 \in OperationLists(call'.commit) :
            \A rawpath \in RawPathKinds(ops2) :
             LET second == EditCommit(Repo', call'.commit, ops2, "other", rawpath)
                 first == EditCommit(Repo, call'.commit, ops2, "other", rawpath)
             IN second.ret.success
                => /\ first.ret.success
                   /\ second.r.commits[second.amended] = first.r.commits[first.amended] ]_vars

\* C4: every tool call returns an output; no exception leaves a tool.
C4_NoExceptionEscapes == ret.raised = "none"

\* C10: abort() on an active session succeeds and ends it; an abort() that
\* follows a successful abort() returns failure and changes nothing.
C10_DoubleAbort ==
    [][ AbortStep
        => /\ ret'.raised = "none"
           /\ rebaseDir => (ret'.success /\ ~rebaseDir')
           /\ (call.op = "abort" /\ ret.success)
                => /\ ~ret'.success
                   /\ ret'.message = <<Line("Failed to abort rebase", "", "stderr")>>
                   /\ UNCHANGED repoVars ]_vars

\* the second of two aborts, the first of which ended a session
C10_Witness ==
    /\ call.op = "abort"
    /\ call.prevOp = "abort"
    /\ call.prevOk
    /\ ~ret.success
    /\ ~rebaseDir

\* under consecutive transient errors every request so far raised APIError
ConsecutiveErrors == llmCalls = apiErrors

\* C5 as stated: at most 4 planner calls, the 4th consecutive failure is raised.
C5_AtMostFourCalls ==
    ConsecutiveErrors
    => /\ llmCalls <= 4
       /\ apiErrors = 4 => (pc = "done" /\ outcome = "api_error")

\* C5 amended: under consecutive transient errors the planner is called at
\* most 5 times for one generate_plan call and for one agent turn; the 5th
\* consecutive failure is raised to the caller, and no earlier one is.
C5_AtMostFiveCalls ==
    /\ apiErrors <= 5
    /\ outcome = "api_error" <=> apiErrors = 5
    /\ ConsecutiveErrors
        => /\ llmCalls <= 5
           /\ llmCalls = 5 => (pc = "done" /\ outcome = "api_error")
           /\ llmCalls < 5 => (pc = "call" /\ outcome = "none")

\* five consecutive failures, the last one raised
C5_Witness ==
    /\ ConsecutiveErrors
    /\ llmCalls = 5
    /\ pc = "done"
    /\ outcome = "api_error"

\* C6: the waits after transient errors are 0, 1, 4, 9 seconds in this order,
\* each wait is followed by exactly one further attempt, and the final failed
\* attempt is followed by no wait.
C6_BackoffSquares ==
    /\ Len(waits) <= 4
    /\ \A i \in 1..Len(waits) : waits[i] = (i - 1) * (i - 1)
    /\ attempt = Len(waits)
    /\ Len(waits) = IF outcome = "api_error" THEN apiErrors - 1 ELSE apiErrors
    /\ outcome = "api_error" => waits = <<0, 1, 4, 9>>
    /\ mode = "plan" => llmCalls = Len(waits) + (IF pc = "done" THEN 1 ELSE 0)

\* the run that waited four times and gave up
C6_Witness ==
    /\ waits = <<0, 1, 4, 9>>
    /\ outcome = "api_error"
    /\ apiErrors = 5

\* the span of a text from its first "[" to its last "]"
HasSpan(text) == Find1(text, "[") # -1 /\ RFind1(text, "]") > Find1(text, "[")
Span(text) == Slice(text, Find1(text, "["), RFind1(text, "]") + 1)
SpanIsPlan(text) ==
    /\ HasSpan(text)
    /\ IsArray(Span(text))
    /\ \A i \in 1..Len(ArrayItems(Span(text))) : RebaseCommitValid(ArrayItems(Span(text))[i])

\* C7: when the structured value is empty and the text from its first "[" to
\* its last "]" is an array of valid actions, the plan of these actions is
\* returned.
C7_FallbackExtractsArray ==
    (mode = "plan" /\ pc = "done" /\ response.kind = "reply"
        /\ ResponseParsed(response.raw) = <<>> /\ SpanIsPlan(response.text))
    => /\ outcome = "plan"
       /\ result = ArrayItems(Span(response.text))

\* C8 as stated: every action of a returned plan has a sha of 7 to 40
\* characters naming a commit of the history, a known action and a message
\* that is absent or non-empty.
C8_PlanActionsInHistory ==
    outcome = "plan"
    => \A i \in 1..Len(result) :
         /\ result[i].sha.len \in 7..40
         /\ result[i].sha.inHistory
         /\ result[i].action \in {"PICK", "REWORD", "EDIT", "SQUASH", "FIXUP", "DROP"}
         /\ result[i].message # ""

\* C8 amended: generate_plan fails or returns a plan whose every action has a
\* sha of 7 to 40 characters, an action of the six known ones and a message
\* that is absent or non-empty; the sha is not checked against the history.
C8_PlanActionsWellFormed ==
    /\ outcome = "plan"
        => /\ result # <<>>
           /\ \A i \in 1..Len(result) :
                /\ result[i].sha.len \in 7..40
                /\ result[i].action \in {"PICK", "REWORD", "EDIT", "SQUASH", "FIXUP", "DROP"}
                /\ result[i].message # ""
    /\ outcome # "plan" => result = <<>>

\* a returned plan of two actions, one with a 40 character sha and a message
C8_Witness ==
    /\ outcome = "plan"
    /\ Len(result) = 2
    /\ \E i \in 1..2 : result[i].sha.len = 40 /\ result[i].message = "fix: typo"
    /\ \E i \in 1..2 : ~result[i].sha.inHistory

\* C9: a reply that cannot be validated ends the run with an error at once:
\* no retry, no wait; only a transient error leaves a further call due.
C9_ValidationFailureTerminal ==
    [][ (mode = "plan" /\ llmCalls' = llmCalls + 1)
        => /\ (response'.kind = "reply" /\ ~HandleReply(response').ok)
                => /\ pc' = "done"
                   /\ outcome' = "validation_error"
                   /\ waits' = waits
                   /\ attempt' = attempt
                   /\ apiErrors' = apiErrors
           /\ pc' = "call" => response'.kind = "api_error"
           /\ pc = "call" ]_vars

\* a reply with text that does not validate, after one transient error
C9_Witness ==
    /\ mode = "plan"
    /\ outcome = "validation_error"
    /\ response.text # <<>>
    /\ apiErrors = 1
    /\ llmCalls = 2
    /\ waits = <<0>>

\* ------------------------------------------------------------------------
\* Properties of the session operations
\* ------------------------------------------------------------------------
StartStep == call'.op = "start" /\ ncalls' = ncalls + 1
ResumeStep == call'.op = "resume" /\ ncalls' = ncalls + 1
ResolveStep == call'.op = "resolve" /\ ncalls' = ncalls + 1

\* RebaseState as the repository shows it
SessionState(r) ==
    IF ~r.rebaseDir THEN "UN_STARTED"
    ELSE IF r.conflicts # {} THEN "CONFLICT" ELSE "IN_PROGRESS"

\* the steps of the plan not yet completed: those still in the todo list and
\* the one the session is paused on
Remaining(r) == Len(r.todo) + (IF r.rebaseDir THEN 1 ELSE 0)

\* C11: abort() in any in-progress state returns success and leaves the
\* session UN_STARTED: the rebase directory, todo list and conflicts are gone,
\* HEAD and the branch are those recorded at start, the branch never moved
\* during the session, and index and working tree are the tree of HEAD.
C11_AbortEndsSession ==
    [][ (AbortStep /\ rebaseDir)
        => /\ ret' = Out(TRUE, <<Line("Rebase aborted successfully.", "", "")>>)
           /\ SessionState(Repo') = "UN_STARTED"
           /\ todo' = <<>> /\ stopped' = 0 /\ conflicts' = {}
           /\ head' = orig.head
           /\ branchTip' = orig.tip
           /\ branchTip' = branchTip
           /\ commits' = commits
           /\ index' = TreeOf(Repo', HeadCommit(Repo'))
           /\ worktree' = index' ]_vars

\* an abort that ended a session right after a failed edit; the edit had
\* checked out its commit from the edit stop on commit 2 and never went back
C11_Witness ==
    /\ call.op = "abort"
    /\ call.prevOp = "edit"
    /\ ~call.prevOk
    /\ prev = Detached(2)
    /\ ret.success
    /\ SessionState(Repo) = "UN_STARTED"
    /\ head = OnBranch

C13_ResumeThreeOutcomes ==
    [][ (ResumeStep /\ rebaseDir)
        => \/ /\ ~ret'.success
              /\ ret'.message[1][1] \in {"Rebase paused due to conflicts",
                                          "Rebase paused due to new conflicts"}
              /\ SessionState(Repo') = "CONFLICT"
           \/ /\ ~ret'.success
              /\ ret'.message[1][1] = "Rebase paused due to"
              /\ SessionState(Repo') = "IN_PROGRESS"
           \/ /\ ret'.success
              /\ ret'.message[1][1] = "Rebase completed successfully."
              /\ SessionState(Repo') = "UN_STARTED" ]_vars

\* C14 as stated: every resume() on an active session strictly decreases the
\* number of remaining steps.
C14_ResumeStrictlyDecreases ==
    [][ (ResumeStep /\ rebaseDir) => Remaining(Repo') < Remaining(Repo) ]_vars

\* C14 amended: a resume() the backend accepts strictly decreases the number
\* of remaining steps, and every successful resume() is one; a resume() with
\* unresolved conflicts, unstaged changes or no session is refused: it fails
\* and leaves the repository, and so the count, unchanged. The count never
\* exceeds the length of the plan.
C14_AcceptedResumeDecreases ==
    [][ ResumeStep
        => /\ \/ Remaining(Repo') < Remaining(Repo)
              \/ (~ret'.success /\ UNCHANGED repoVars)
           /\ ret'.success => Remaining(Repo') < Remaining(Repo)
           /\ (~rebaseDir \/ conflicts # {} \/ Unstaged(Repo))
                => (~ret'.success /\ UNCHANGED repoVars)
           /\ Remaining(Repo) <= MaxPlan
           /\ Remaining(Repo') <= MaxPlan ]_vars

\* a resume that went on to a later edit step: steps remain, fewer than before
C14_Witness ==
    /\ call.op = "resume"
    /\ call.prevOp = "resolve"
    /\ ret.success
    /\ rebaseDir
    /\ Remaining(Repo) = 1

\* C15: resolve() without a session or without conflicted paths returns
\* failure and writes and stages nothing.
C15_ResolveNeedsConflicts ==
    [][ (ResolveStep /\ (~rebaseDir \/ conflicts = {}))
        => /\ ret'.raised = "none"
           /\ ~ret'.success
           /\ ret'.message = IF ~rebaseDir
                             THEN <<Line("Error: No rebase in progress.", "", "")>>
                             ELSE <<Line("Error: No conflicts to resolve.", "", "")>>
           /\ UNCHANGED repoVars ]_vars

\* resolutions offered to a session paused without conflicts
C15_Witness ==
    /\ call.op = "resolve"
    /\ call.nops > 0
    /\ ~ret.success
    /\ ret.message = <<Line("Error: No conflicts to resolve.", "", "")>>
    /\ rebaseDir

\* C16: resolve() only writes and stages: the todo list, the rebase
\* directory and its records, the stopped step, HEAD, the branch and the
\* object store are unchanged by it.
C16_ResolveDoesNotAdvance ==
    [][ ResolveStep
        => /\ todo' = todo
           /\ rebaseDir' = rebaseDir
           /\ stopped' = stopped
           /\ orig' = orig
           /\ head' = head
           /\ prev' = prev
           /\ branchTip' = branchTip
           /\ commits' = commits
           /\ Remaining(Repo') = Remaining(Repo)
           /\ \A p \in Paths : index'[p] # index[p] => index'[p] = worktree'[p] ]_vars

\* a resolve that staged the resolution of the last conflict: the session is
\* still stopped on the same step
C16_Witness ==
    /\ call.op = "resolve"
    /\ call.nops = 1
    /\ ret.success
    /\ rebaseDir
    /\ conflicts = {}
    /\ stopped # 0
    /\ index["a.txt"] = "v2"

\* C17: resolve() with an empty list on a session with conflicts leaves the
\* conflict set and the rest of the repository unchanged, the session stays
\* in CONFLICT and the call does not fail; with an empty list it fails only
\* when there is no conflict (or no session).
C17_EmptyResolveKeepsConflicts ==
    [][ (ResolveStep /\ call'.nops = 0)
        => /\ (rebaseDir /\ conflicts # {})
                => /\ conflicts' = conflicts
                   /\ SessionState(Repo') = "CONFLICT"
                   /\ UNCHANGED repoVars
                   /\ ret'.success
           /\ ~ret'.success => (~rebaseDir \/ conflicts = {}) ]_vars

\* an empty resolve on a session in CONFLICT
C17_Witness ==
    /\ call.op = "resolve"
    /\ call.nops = 0
    /\ ret.success
    /\ SessionState(Repo) = "CONFLICT"

\* C18: start() with a base_commit that resolves to no commit returns the
\* start failure carrying the backend's error and changes nothing: no session
\* is created.
C18_StartUnknownBase ==
    [][ (StartStep /\ ~Resolves(Repo, call'.commit))
        => /\ ret' = Out(FALSE, <<Line("Rebase failed", "", "stderr")>>)
           /\ UNCHANGED repoVars
           /\ ~rebaseDir => SessionState(Repo') = "UN_STARTED" ]_vars

\* a start on an unknown base with no session before or after
C18_Witness ==
    /\ call.op = "start"
    /\ call.commit = BadSha
    /\ call.prevOp = "none"
    /\ ~ret.success
    /\ SessionState(Repo) = "UN_STARTED"

\* C19: when the rewrite launched by start() stops on conflicts, start()
\* returns success with the conflicted paths.
C19_StartReportsConflicts ==
    [][ (StartStep /\ ~rebaseDir /\ SessionState(Repo') = "CONFLICT")
        => /\ ret'.success
           /\ ret'.paths = conflicts' ]_vars

\* C20: after a start() of a plan of PICK and REWORD steps only that returned
\* success without conflicts, the next resume() returns success, completed.
C20_ResumeAfterCompleteStart ==
    [][ (ResumeStep /\ call.op = "start" /\ call.noPause /\ ret.success /\ ret.paths = {})
        => /\ ret'.success
           /\ ret'.message = <<Line("Rebase completed successfully.", "", "")>> ]_vars

\* ------------------------------------------------------------------------
\* Properties of the sequencer file
\* ------------------------------------------------------------------------
Written == mode = "write" /\ pc = "done"
\* line k of the file is the line of action a, with or without its message
IsLineOf(k, a) ==
    /\ k \in 1..Len(planFile)
    /\ Len(planFile[k]) >= 2
    /\ planFile[k][1] = a.action
    /\ planFile[k][2] = a.sha
CarriesMessage(k, a) ==
    /\ IsLineOf(k, a)
    /\ Len(planFile[k]) = 4
    /\ planFile[k][3] = "#"
    /\ planFile[k][4] = MessageLines(a.message)[1]

\* C21: the file written from a plan of n actions has exactly n lines and
\* line i begins with the action and sha of action i.
C21_FileKeepsPlan ==
    Written
    => /\ Len(planFile) = Len(result)
       /\ \A i \in 1..Len(result) : IsLineOf(i, result[i])

\* C22: the line of an action carries its message as a trailing comment if
\* and only if the action is REWORD and has a message; no other line of the
\* file carries a comment.
C22_CommentIffReword ==
    Written
    => /\ \A i \in 1..Len(result) :
             (result[i].action = "REWORD" /\ result[i].message # NoValue)
             <=> (\E k \in 1..Len(planFile) : CarriesMessage(k, result[i]))
       /\ \A k \in 1..Len(planFile) :
             (Len(planFile[k]) > 2) => planFile[k][1] = "REWORD"

\* ------------------------------------------------------------------------
\* Properties of git_edit_commit: when it applies and where it leaves HEAD
\* ------------------------------------------------------------------------
CommitNotFound == Out(FALSE, <<Line("Error: Commit", "", "not found")>>)

\* C23: an edit whose commit id resolves to no commit returns the
\* commit-not-found failure; no checkout ran, no operation was applied, and
\* HEAD, working tree, index and commits are unchanged.
C23_UnknownCommitReported ==
    [][ (EditStep /\ call'.commit = BadSha)
        => /\ ret' = CommitNotFound
           /\ call'.attempted = <<>>
           /\ UNCHANGED repoVars ]_vars

\* a rebase is stopped at an edit step and c is the commit it stopped on
OpenForEditing(c) == rebaseDir /\ orig.amend # 0 /\ c = orig.amend

\* C24: an edit called with no session, or for a commit other than the one the
\* session has open for editing, returns success=false and performs no
\* checkout, no file change and no amend.
C24_EditOnlyWhilePaused ==
    [][ (EditStep /\ ~OpenForEditing(call'.commit))
        => /\ ~ret'.success
           /\ call'.attempted = <<>>
           /\ call'.amended = BadSha
           /\ UNCHANGED repoVars ]_vars

\* C25: after every successful edit the commit has been amended with its
\* message unchanged, and an edit made outside a rebase, where the branch was
\* checked out before the first edit, leaves HEAD on that branch again.
C25_SuccessfulEditReturnsToBranch ==
    [][ (EditStep /\ ret'.success)
        => /\ call'.amended # BadSha
           /\ commits'[call'.amended].msg = commits[call'.commit].msg
           /\ ~rebaseDir => head' = OnBranch ]_vars

\* ------------------------------------------------------------------------
\* The operation handlers one call at a time: git_edit_commit's checkout of a
\* commit, and one handler of its dispatch table run on the checkout as it
\* is, MaxHandlerCalls steps
\* ------------------------------------------------------------------------
MaxHandlerCalls == 3

\* operations on the commit under edit; the one with empty content is an
\* operation whose content was assigned after construction, which the
\* validator of the field does not see
EditOperations(c) ==
    { FileOperation("modify", "a.txt", "hello", NoValue, c),
      FileOperation("modify", "missing.txt", "hello", NoValue, c),
      FileOperation("modify", "a.txt", NoValue, NoValue, c),
      FileOperation("modify", "a.txt", EmptyText, NoValue, c),
      FileOperation("delete", "a.txt", NoValue, NoValue, c),
      FileOperation("delete", "missing.txt", NoValue, NoValue, c),
      FileOperation("rename", "a.txt", NoValue, "missing.txt", c),
      FileOperation("rename", "missing.txt", NoValue, "a.txt", c),
      FileOperation("rename", "a.txt", NoValue, NoValue, c) }

RestoreOperations(r) ==
    { FileOperation("restore", p, NoValue, NoValue, c) : p \in Paths, c \in 1..Len(r.commits) }

\* self.repo.git.checkout(commit_hash), when git accepts it
CheckoutCommit ==
    /\ ncalls < MaxHandlerCalls
    /\ \E commit_hash \in 1..Len(commits) :
         LET co == GitCheckout(Repo, Detached(commit_hash)) IN
         /\ co.err = "none"
         /\ SetRepo(co.r)
         /\ call' = [NoCall EXCEPT !.op = "checkout", !.commit = commit_hash]
    /\ ncalls' = ncalls + 1
    /\ UNCHANGED ret
    /\ UNCHANGED plannerVars

\* operations[operation.operation_type](file_path, operation), which runs
\* after the checkout of the commit
HandlerCall ==
    /\ ncalls < MaxHandlerCalls
    /\ head.kind = "detached"
    /\ \E op \in EditOperations(HeadCommit(Repo)) \cup RestoreOperations(Repo) :
        \E rawpath \in RawPathKinds(<<op>>) :
         LET o == ApplyOperation(Repo, op, "other", rawpath) IN
         /\ SetRepo(o.r)
         /\ call' = [NoCall EXCEPT !.op = op.operation_type, !.commit = op.commit_sha,
                                   !.nops = 1, !.attempted = <<1>>,
                                   !.failures = IF o.status = NoFailure THEN <<>>
                                                ELSE <<o.status>>,
                                   !.exc = o.exc,
                                   !.file_path = op.file_path,
                                   !.content = op.content,
                                   !.new_file_path = op.new_file_path]
    /\ ncalls' = ncalls + 1
    /\ UNCHANGED ret
    /\ UNCHANGED plannerVars

InitOperation == \E r \in {InitRepo, PausedRepo} : InitWith(r)
NextOperation == CheckoutCommit \/ HandlerCall
SpecOperation == InitOperation /\ [][NextOperation]_vars

\* ------------------------------------------------------------------------
\* Properties of the operation handlers
\* ------------------------------------------------------------------------
HandlerStep(type) == call'.op = type /\ ncalls' = ncalls + 1
\* the handler returned the failure text and changed nothing
FailsWith(text, detail) ==
    /\ call'.failures = <<Line(text, call'.file_path, detail)>>
    /\ call'.exc = "none"
    /\ UNCHANGED repoVars
\* the path's version in the parent of the commit c
ParentVersion(c, p) == TreeOf(Repo, commits[c].parent)[p]

\* C26: a restore fails with "No changes found" and writes and stages nothing
\* when the commit is a root commit, when the path did not change in the
\* commit, and when the commit added the path.
C26_RestoreNeedsPriorVersion ==
    [][ (HandlerStep("restore")
         /\ \/ commits[call'.commit].parent = 0
            \/ ParentVersion(call'.commit, call'.file_path)
                 = commits[call'.commit].tree[call'.file_path]
            \/ ParentVersion(call'.commit, call'.file_path) = Absent)
        => FailsWith("Cannot restore", "No changes found") ]_vars

\* C27: a rename whose source is not on disk fails with "Source does not
\* exist", one whose destination is on disk fails with "Target already
\* exists"; neither moves anything: working tree and index are unchanged, so
\* the source stays at its path and the destination keeps its content.
C27_RenameFailsWithoutMoving ==
    [][ HandlerStep("rename")
        => /\ worktree[call'.file_path] = Absent
                => FailsWith("Cannot rename", "Source does not exist")
           /\ (/\ worktree[call'.file_path] # Absent
               /\ ~Falsy(call'.new_file_path)
               /\ worktree[call'.new_file_path] # Absent)
                => /\ FailsWith("Cannot rename", "Target already exists")
                   /\ worktree'[call'.file_path] = worktree[call'.file_path]
                   /\ worktree'[call'.new_file_path] = worktree[call'.new_file_path] ]_vars

\* a rename onto an occupied path was refused, both files are still in place
C27_Witness ==
    /\ call.op = "rename"
    /\ call.failures = <<Line("Cannot rename", call.file_path, "Target already exists")>>
    /\ worktree[call.file_path] # Absent
    /\ worktree[call.new_file_path] # Absent
    /\ worktree[call.new_file_path] # worktree[call.file_path]

\* C28: a modify with no content or empty content fails with "No content
\* provided" and neither writes nor stages; with non-empty content it writes
\* exactly that content to the path, stages the path, and touches no other
\* path.
C28_ModifyNeedsContent ==
    [][ HandlerStep("modify")
        => /\ Falsy(call'.content)
                => FailsWith("Cannot modify", "No content provided")
           /\ ~Falsy(call'.content)
                => /\ call'.failures = <<>>
                   /\ call'.exc = "none"
                   /\ worktree' = [worktree EXCEPT ![call'.file_path] = call'.content]
                   /\ index' = [index EXCEPT ![call'.file_path] = call'.content] ]_vars

\* a modify wrote and staged its content on a path that held something else
C28_Witness ==
    /\ call.op = "modify"
    /\ call.content = "hello"
    /\ call.failures = <<>>
    /\ worktree[call.file_path] = "hello"
    /\ index[call.file_path] = "hello"
    /\ TreeOf(Repo, HeadCommit(Repo))[call.file_path] # "hello"

\* C29: a delete of a path that is not on disk fails with "file does not
\* exist" and changes neither working tree nor index; a delete of a path on
\* disk removes it from the working tree and from the index.
C29_DeleteRemovesPath ==
    [][ HandlerStep("delete")
        => /\ worktree[call'.file_path] = Absent
                => FailsWith("Cannot delete", "file does not exist")
           /\ worktree[call'.file_path] # Absent
                => /\ worktree'[call'.file_path] = Absent
                   /\ index'[call'.file_path] = Absent ]_vars

\* C38: after a successful restore of a path for a commit, the working tree
\* and the index hold for the path the content it had in the first parent of
\* the commit, whatever the working tree held for it before.
C38_RestoreGivesPriorVersion ==
    [][ (HandlerStep("restore") /\ call'.failures = <<>> /\ call'.exc = "none")
        => /\ worktree'[call'.file_path] = ParentVersion(call'.commit, call'.file_path)
           /\ index'[call'.file_path] = ParentVersion(call'.commit, call'.file_path) ]_vars

\* ------------------------------------------------------------------------
\* Properties of the agent turn
\* ------------------------------------------------------------------------
\* C35: one agent turn dispatches at most one engine operation, the dispatch
\* is the last step of the turn, and every retry after a transient error
\* happens before any dispatch; so no operation runs twice for one directive.
C35_OneDispatchPerTurn ==
    [][ mode = "turn"
        => /\ toolCalls' <= 1
           /\ toolCalls' # toolCalls
                => /\ pc = "tool" /\ NamesFunction(response)
                   /\ pc' = "done" /\ outcome' = "returned"
                   /\ UNCHANGED <<attempt, apiErrors, llmCalls>>
           /\ (attempt' # attempt \/ apiErrors' # apiErrors)
                => toolCalls = 0 /\ toolCalls' = 0 ]_vars

\* a turn that was retried after a transient error and then dispatched once
C35_Witness ==
    /\ mode = "turn"
    /\ pc = "done"
    /\ outcome = "returned"
    /\ attempt > 0
    /\ toolCalls = 1

\* get_function_call sends the corrective message
Reprompt == mode = "turn" /\ pc = "function" /\ llmCalls' = llmCalls + 1

\* C30: in an agent turn a response that names no function is answered by the
\* corrective message, and the answer to it is examined in the same way, as
\* often as such responses come; a re-prompt dispatches no engine operation
\* and leaves the engine alone, a tool is dispatched only for a response that
\* names a function, and a re-prompt that is answered changes neither the
\* attempt number nor the waits nor the error count.
C30_RepromptUntilNamed ==
    [][ mode = "turn"
        => /\ (pc = "function" /\ response.kind = "unnamed")
                => /\ Reprompt
                   /\ response'.sends = response.sends + 1
                   /\ pc' # "tool"
           /\ Reprompt
                => /\ response.kind = "unnamed"
                   /\ toolCalls' = toolCalls
                   /\ UNCHANGED engineVars
                   /\ response'.kind # "api_error"
                        => /\ pc' = "function"
                           /\ attempt' = attempt
                           /\ waits' = waits
                           /\ apiErrors' = apiErrors
           /\ toolCalls' # toolCalls
                => /\ response.kind = "named"
                   /\ toolCalls' = toolCalls + 1 ]_vars

\* a turn that re-prompted MaxReprompts times, then dispatched one operation,
\* with the attempt number still 0
C30_Witness ==
    /\ mode = "turn"
    /\ outcome = "returned"
    /\ response.sends = MaxReprompts + 1
    /\ llmCalls = MaxReprompts + 1
    /\ toolCalls = 1
    /\ attempt = 0
    /\ waits = <<>>

\* ------------------------------------------------------------------------
\* main() and the operator loop (src/src/rebaser/main.py, __main__.py,
\* agent.py; the older loop of mcp_client.py), MaxTurns turns
\* ------------------------------------------------------------------------
MaxTurns == 3
MaxPrints == 2

\* what the operator may type at the prompt, and str.lower of it
Entries == {"y", "n", "f", "Y", "x"}
Lower(entry) == IF entry = "Y" THEN "y" ELSE entry
Feedbacks == {"squash the typo fixes"}
\* the text a turn returns, by turn number
ResponseTexts == <<"response 1", "response 2", "response 3", "response 4", "response 5">>
InitialQuery == "initial query"

\* a plan file left by an earlier run, and the plans ask_llm may return
OldPlanFile == main_write_plan(<<RebaseCommit(Sha(7, TRUE), "DROP", NoValue)>>)
MainPlans ==
    { <<RebaseCommit(Sha(7, TRUE), "PICK", NoValue)>>,
      <<RebaseCommit(Sha(7, TRUE), "REWORD", "fix: typo"),
        RebaseCommit(Sha(40, TRUE), "FIXUP", NoValue)>> }

At(step) == driver.step = step
Goto(step) == driver' = [driver EXCEPT !.step = step]
MainFrame == UNCHANGED <<mode, pc, attempt, apiErrors, waits, response, outcome, locals>>

\* a main() that asks for a plan whether or not the plan file exists
MainAlwaysGenerates ==
    /\ At("main")
    /\ Goto("history")
    /\ UNCHANGED <<llmCalls, result, toolCalls, planFile>>
    /\ MainFrame
    /\ UNCHANGED engineVars

\* a main() that goes to the agent without a plan
MainSkipsPlan ==
    /\ At("main")
    /\ Goto("agent")
    /\ UNCHANGED <<llmCalls, result, toolCalls, planFile>>
    /\ MainFrame
    /\ UNCHANGED engineVars

\* main(): `if not plan_file.exists()`
main ==
    /\ At("main")
    /\ Goto(IF driver.exists THEN "agent" ELSE "history")
    /\ UNCHANGED <<llmCalls, result, toolCalls, planFile>>
    /\ MainFrame
    /\ UNCHANGED engineVars

\* get_commits.run(...): the history, or an exception or exit
get_commits_run ==
    /\ At("history")
    /\ \E ok \in BOOLEAN :
         driver' = [driver EXCEPT !.step = IF ok THEN "ask" ELSE "raised",
                                  !.histories = @ + 1]
    /\ UNCHANGED <<llmCalls, result, toolCalls, planFile>>
    /\ MainFrame
    /\ UNCHANGED engineVars

\* llm.ask_llm(...): a validated plan after n planner calls, or an exception
ask_llm ==
    /\ At("ask")
    /\ \E n \in 1..(MaxRetryAttempt + 2) :
         /\ llmCalls' = llmCalls + n
         /\ \/ \E plan \in MainPlans :
                 /\ result' = plan
                 /\ driver' = [driver EXCEPT !.step = "write", !.plans = @ + 1]
            \/ /\ driver' = [driver EXCEPT !.step = "raised", !.plans = @ + 1]
               /\ UNCHANGED result
    /\ UNCHANGED <<toolCalls, planFile>>
    /\ MainFrame
    /\ UNCHANGED engineVars

\* plan_file = write_plan(rebase_commands) of main.py
WritePlan ==
    /\ At("write")
    /\ planFile' = main_write_plan(result)
    /\ driver' = [driver EXCEPT !.step = "agent", !.exists = TRUE, !.writes = @ + 1]
    /\ UNCHANGED <<llmCalls, result, toolCalls>>
    /\ MainFrame
    /\ UNCHANGED engineVars

\* agent.main(...): initialize() builds the initial query from the plan file
\* path and the base commit
initialize ==
    /\ At("agent")
    /\ driver' = [driver EXCEPT !.step = "turn", !.query = InitialQuery]
    /\ UNCHANGED <<llmCalls, result, toolCalls, planFile>>
    /\ MainFrame
    /\ UNCHANGED engineVars

\* response = await agent_loop(query, agent, server) of agent.py: n planner
\* requests, then one engine operation and the text, or APIError raised
RunTurn ==
    /\ At("turn")
    /\ driver.copy = "agent.py"
    /\ driver.turns < MaxTurns
    /\ \E n \in 1..2 :
         /\ llmCalls' = llmCalls + n
         /\ \/ /\ toolCalls' = toolCalls + 1
               /\ driver' = [driver EXCEPT !.step = "show", !.turns = @ + 1,
                                           !.shown = ResponseTexts[driver.turns + 1]]
            \/ /\ driver' = [driver EXCEPT !.step = "raised", !.turns = @ + 1]
               /\ UNCHANGED toolCalls
    /\ UNCHANGED <<result, planFile>>
    /\ MainFrame
    /\ UNCHANGED engineVars

\* response = await agent_loop(query, agent) of mcp_client.py: the text of
\* the answer, no engine operation
ClientTurn ==
    /\ At("turn")
    /\ driver.copy = "mcp_client.py"
    /\ driver.turns < MaxTurns
    /\ \E n \in 1..2 :
         /\ llmCalls' = llmCalls + n
         /\ \/ driver' = [driver EXCEPT !.step = "show", !.turns = @ + 1,
                                        !.shown = ResponseTexts[driver.turns + 1]]
            \/ driver' = [driver EXCEPT !.step = "raised", !.turns = @ + 1]
    /\ UNCHANGED <<result, toolCalls, planFile>>
    /\ MainFrame
    /\ UNCHANGED engineVars

\* print(response); prompt_user(): `user = input(...)`, before the loop
ReadEntry ==
    /\ At("show")
    /\ \E entry \in Entries :
         driver' = [driver EXCEPT !.step = "prompt", !.entry = entry, !.reads = @ + 1]
    /\ UNCHANGED <<llmCalls, result, toolCalls, planFile>>
    /\ MainFrame
    /\ UNCHANGED engineVars

\* the entries the loop of prompt_user accepts, and what it returns for them
Accepted(copy, entry) ==
    IF copy = "agent.py" THEN Lower(entry) \in {"y", "n", "f"} ELSE entry \in {"y", "n"}
Returned(copy, entry) == IF copy = "agent.py" THEN Lower(entry) ELSE entry

\* one iteration of `while True:` in prompt_user: an accepted entry is
\* returned; after any other the message is printed and the same entry is
\* tested again (the input() call is before the loop)
prompt_user ==
    /\ At("prompt")
    /\ IF Accepted(driver.copy, driver.entry)
       THEN driver' = [driver EXCEPT !.step = "choice",
                                     !.choice = Returned(driver.copy, driver.entry)]
       ELSE /\ driver.prints < MaxPrints
            /\ driver' = [driver EXCEPT !.prints = @ + 1]
    /\ UNCHANGED <<llmCalls, result, toolCalls, planFile>>
    /\ MainFrame
    /\ UNCHANGED engineVars

\* query_user of agent.py after prompt_user has returned
query_user ==
    /\ At("choice")
    /\ driver.copy = "agent.py"
    /\ IF driver.choice = "n"
       THEN Goto("stopped")
       ELSE IF driver.choice = "f"
       THEN \E text \in Feedbacks :
              driver' = [driver EXCEPT !.step = "turn", !.query = text]
       ELSE driver' = [driver EXCEPT !.step = "turn", !.query = "Continue"]
    /\ UNCHANGED <<llmCalls, result, toolCalls, planFile>>
    /\ MainFrame
    /\ UNCHANGED engineVars

\* the loop of initialize in mcp_client.py after prompt_user has returned
client_loop ==
    /\ At("choice")
    /\ driver.copy = "mcp_client.py"
    /\ IF driver.choice = "n"
       THEN Goto("stopped")
       ELSE driver' = [driver EXCEPT !.step = "turn", !.query = driver.shown]
    /\ UNCHANGED <<llmCalls, result, toolCalls, planFile>>
    /\ MainFrame
    /\ UNCHANGED engineVars

\* main() of main.py with or without a plan file, and main() of mcp_client.py,
\* which is given the plan file
InitMain ==
    /\ InitEngine(InitRepo)
    /\ mode = "main"
    /\ pc = "done"
    /\ attempt = 0
    /\ llmCalls = 0
    /\ apiErrors = 0
    /\ waits = <<>>
    /\ response = NoResponse
    /\ outcome = "none"
    /\ result = <<>>
    /\ toolCalls = 0
    /\ locals = NoLocals
    /\ \E exists \in BOOLEAN, copy \in {"agent.py", "mcp_client.py"} :
         /\ copy = "mcp_client.py" => exists
         /\ planFile = IF exists THEN OldPlanFile ELSE <<>>
         /\ driver = [NoDriver EXCEPT !.step = IF copy = "agent.py" THEN "main" ELSE "agent",
                                      !.copy = copy, !.exists = exists]

NextMain ==
    \/ main
    \/ get_commits_run
    \/ ask_llm
    \/ WritePlan
    \/ initialize
    \/ RunTurn
    \/ ClientTurn
    \/ ReadEntry
    \/ prompt_user
    \/ query_user
    \/ client_loop

SpecMain == InitMain /\ [][NextMain]_vars

\* ------------------------------------------------------------------------
\* Properties of main() and the operator loop
\* ------------------------------------------------------------------------
\* what the loop does with the operator's choice, and when turns are run
ChoiceDetermines ==
    /\ At("choice")
        => /\ driver.choice = "n"
                => /\ driver'.step = "stopped"
                   /\ llmCalls' = llmCalls
                   /\ toolCalls' = toolCalls
           /\ driver.choice = "y"
                => /\ driver'.step = "turn"
                   /\ driver'.query = "Continue"
           /\ driver.choice = "f"
                => /\ driver'.step = "turn"
                   /\ driver'.query \in Feedbacks
           /\ driver'.turns = driver.turns
    /\ At("stopped") => UNCHANGED vars
    /\ At("turn") => (driver'.turns = driver.turns + 1 /\ driver'.step \in {"show", "raised"})
    /\ driver'.turns # driver.turns => At("turn")

\* C31: after a turn's result is shown the operator's choice determines the
\* next step: "n" ends the loop with no further planner or engine call, "y"
\* sends the directive "Continue", "f" sends the operator's text, and one
\* turn is run for each directive sent.
C31_ChoiceDeterminesNextStep == [][ChoiceDetermines]_vars

\* C32: the plan is complete before the session starts: a planner call for
\* the plan and a write of the plan file happen only while no turn has run
\* and no engine operation has been dispatched, and an engine operation is
\* dispatched only when the plan file exists and every plan asked for has
\* been written.
C32_PlanBeforeSession ==
    [][ /\ (\/ driver'.plans # driver.plans
            \/ driver'.writes # driver.writes
            \/ driver'.histories # driver.histories
            \/ planFile' # planFile
            \/ result' # result)
            => /\ toolCalls = 0
               /\ driver.turns = 0
               /\ driver.query = NoValue
        /\ toolCalls' # toolCalls
            => /\ driver.exists
               /\ driver.query # NoValue
               /\ driver.plans = driver.writes
               /\ driver.writes > 0 => planFile = main_write_plan(result) ]_vars

\* the first engine operation of a run that asked for its plan and wrote it
C32_Witness ==
    /\ toolCalls = 1
    /\ driver.plans = 1
    /\ driver.writes = 1
    /\ result \in MainPlans
    /\ planFile = main_write_plan(result)

\* C36: the operator prompt returns an accepted choice, and after an entry
\* that is not accepted it reads the operator's input again.
C36_PromptAsksAgain ==
    [][ At("prompt")
        => /\ Accepted(driver.copy, driver.entry)
                => (driver'.step = "choice" /\ driver'.choice \in {"y", "n", "f"})
           /\ ~Accepted(driver.copy, driver.entry)
                => driver'.reads = driver.reads + 1 ]_vars

\* C37: main() reads the history and asks for a plan exactly when the plan
\* file does not exist; with a plan file present it goes to the agent with the
\* file as it is, and no step removes or rewrites an existing plan file.
C37_PlanFileReused ==
    [][ driver.copy = "agent.py"
        => /\ (At("main") /\ ~driver.exists) => driver'.step = "history"
           /\ (At("main") /\ driver.exists) => driver'.step = "agent"
           /\ (At("history") /\ driver'.step # "raised") => driver'.step = "ask"
           /\ (\/ driver'.histories # driver.histories
               \/ driver'.plans # driver.plans
               \/ llmCalls' # llmCalls /\ driver.turns = 0 /\ ~At("turn"))
                => ~driver.exists
           /\ driver.exists => (driver'.exists /\ planFile' = planFile) ]_vars

\* a session started from the plan file an earlier run left: no history
\* read, no plan asked for, the file as it was
C37_Witness ==
    /\ driver.copy = "agent.py"
    /\ driver.histories = 0
    /\ driver.plans = 0
    /\ driver.writes = 0
    /\ planFile = OldPlanFile
    /\ driver.query = "Continue"
    /\ toolCalls = 2

\* ------------------------------------------------------------------------
\* The prompt block of a commit (src/src/rebaser/llm.py join_diff,
\* build_commit_prompt) over the diffs get_commits.process_diff produces
\* ------------------------------------------------------------------------
MaxFiles == 2

\* a string, as the prefix the code tests with startswith and the rest
Str(prefix, rest) == [prefix |-> prefix, rest |-> rest]
StartsWith(line, prefixes) == line.prefix \in prefixes

\* the file diffs of a commit: change type and the kind of patch text
\* ("hunk": unified diff text, which begins with "@@"; "binary": "Binary
\* files differ")
Diffs ==
    [change : {"A", "M", "R", "C"}, path : {"a.py"}, patch : {"hunk", "binary"}]
        \cup [change : {"D"}, path : {"a.py"}, patch : {"hunk"}]

PatchText(d) ==
    IF d.patch = "hunk" THEN Str("@", "@ -1 +1 @@ -x +y") ELSE Str("Binary", " files differ")

\* process_diff(diff) for a diff made with create_patch
process_diff(d) ==
    IF d.change = "D" THEN <<Str("", "a.py deleted")>>
    ELSE <<CASE d.change = "A" -> Str("File added: ", d.path)
             [] d.change = "C" -> Str("File copied from ", d.path)
             [] d.change = "R" -> Str("File renamed:", d.path)
             [] OTHER -> Str("File changed: ", d.path),
           PatchText(d)>>

\* the loop of join_diff from line i on
RECURSIVE CleanedDiff(_, _, _, _)
CleanedDiff(diff, i, skip_lines, cleaned_diff) ==
    IF i > Len(diff) THEN cleaned_diff
    ELSE IF StartsWith(diff[i], {"File added: "})
    THEN CleanedDiff(diff, i + 1, TRUE, Append(cleaned_diff, diff[i]))
    ELSE IF skip_lines /\ StartsWith(diff[i], {"+", "@"})
    THEN CleanedDiff(diff, i + 1, skip_lines, cleaned_diff)
    ELSE CleanedDiff(diff, i + 1, FALSE, Append(cleaned_diff, diff[i]))

\* join_diff(diff, remove_files), as the sequence of the strings joined
join_diff(diff, remove_files) ==
    IF ~remove_files THEN diff ELSE CleanedDiff(diff, 1, FALSE, <<>>)

RECURSIVE JoinedDiffs(_, _, _)
JoinedDiffs(diffs, i, remove_files) ==
    IF i > Len(diffs) THEN <<>>
    ELSE join_diff(diffs[i], remove_files) \o JoinedDiffs(diffs, i + 1, remove_files)

\* str(n) of a file count
Numerals == <<"0", "1", "2", "3", "4">>

\* build_commit_prompt(commit, skip_ids), as the sequence of the strings joined
build_commit_prompt(commit, skip_ids) ==
    <<Str("Commit Hash: ", commit.id), Str("Commit Message: ", commit.message),
      Str("Diff: (", Numerals[Len(commit.diff) + 1])>>
        \o JoinedDiffs(commit.diff, 1, commit.id \in skip_ids)
        \o <<Str("-", "------------------------")>>

\* the commits get_commits.build_commit_data gives: up to MaxFiles file diffs
CommitInfos ==
    { [id |-> "c1", message |-> "m1",
       diff |-> [i \in 1..n |-> process_diff(ds[i])]] :
         ds \in [1..MaxFiles -> Diffs], n \in 0..MaxFiles }
SkipIds == {{}, {"c1"}, {"c2"}}

BuildCommitPrompt ==
    /\ locals.fn = "build_commit_prompt"
    /\ ~locals.done
    /\ locals' = [locals EXCEPT !.prompt = build_commit_prompt(locals.commit, locals.skip_ids),
                                !.done = TRUE]
    /\ UNCHANGED <<mode, pc, attempt, llmCalls, apiErrors, waits, response, outcome,
                   result, toolCalls, planFile, driver>>
    /\ UNCHANGED engineVars

InitPrompt ==
    /\ InitEngine(InitRepo)
    /\ mode = "none"
    /\ pc = "done"
    /\ attempt = 0
    /\ llmCalls = 0
    /\ apiErrors = 0
    /\ waits = <<>>
    /\ response = NoResponse
    /\ outcome = "none"
    /\ result = <<>>
    /\ toolCalls = 0
    /\ planFile = <<>>
    /\ driver = NoDriver
    /\ \E commit \in CommitInfos, skip_ids \in SkipIds :
         locals = [fn |-> "build_commit_prompt", commit |-> commit, skip_ids |-> skip_ids,
                   prompt |-> <<>>, done |-> FALSE]

NextPrompt == BuildCommitPrompt
SpecPrompt == InitPrompt /\ [][NextPrompt]_vars

\* ------------------------------------------------------------------------
\* Properties of the prompt block
\* ------------------------------------------------------------------------
Built == locals.fn = "build_commit_prompt" /\ locals.done
InPrompt(line) == \E k \in 1..Len(locals.prompt) : locals.prompt[k] = line
IsFileHeader(line) ==
    \/ StartsWith(line, {"File added: ", "File copied from ", "File renamed:", "File changed: "})
    \/ line = Str("", "a.py deleted")
IsHunk(line) == StartsWith(line, {"@", "+"})

\* C33: for a commit whose id is in the skip list the block has the header of
\* every changed file and no hunk text; for any other commit it has every
\* string of every file diff, in order.
C33_HunksElided ==
    Built
    => IF locals.commit.id \in locals.skip_ids
       THEN /\ \A i \in 1..Len(locals.commit.diff) :
                 \A j \in 1..Len(locals.commit.diff[i]) :
                    IsFileHeader(locals.commit.diff[i][j]) => InPrompt(locals.commit.diff[i][j])
            /\ \A k \in 1..Len(locals.prompt) : ~IsHunk(locals.prompt[k])
       ELSE SubSeq(locals.prompt, 4, Len(locals.prompt) - 1)
              = JoinedDiffs(locals.commit.diff, 1, FALSE)

\* ------------------------------------------------------------------------
\* execute_rebase_plan (src/src/rebaser/rebase.py) step by step
\* ------------------------------------------------------------------------
\* the plans handed to execute_rebase_plan
ExecCommits ==
    { RebaseCommit(Sha(7, TRUE), "PICK", NoValue),
      RebaseCommit(Sha(7, TRUE), "REWORD", "fix: typo"),
      RebaseCommit(Sha(7, TRUE), "REWORD", NoValue) }
ExecPlans == UNION {[1..n -> ExecCommits] : n \in 0..MaxPlan}

\* how `git rebase -i --autosquash base_ref` ends: exit status 0 with nothing
\* left in progress ("ok"), a non-zero status with the rebase stopped on a
\* conflict ("stopped"), a non-zero status with nothing started ("refused":
\* the sequence editor failed, or the list was empty)
RebaseExits == {"ok", "stopped", "refused"}

\* the frame of execute_rebase_plan: the branch HEAD is on, whether the
\* temporary branch exists, whether a rebase is in progress, the number of
\* calls of abort_rebase, and the exception in flight
ExecFrame(plan) ==
    [fn |-> "execute_rebase_plan", step |-> "checkout", plan |-> plan,
     branch |-> "original", temp |-> FALSE, rebasing |-> FALSE,
     exit |-> "none", aborts |-> 0, exc |-> "none"]

ExecUnchanged ==
    /\ UNCHANGED <<mode, pc, attempt, llmCalls, apiErrors, waits, response, outcome,
                   result, toolCalls, driver>>
    /\ UNCHANGED engineVars

ExecAt(step) == locals.fn = "execute_rebase_plan" /\ locals.step = step

\* manager.abort_rebase(): git rebase is given the argument "—abort", which
\* begins with a dash that is no hyphen; git takes it for an upstream, or
\* refuses because a rebase is in progress: GitCommandError, nothing aborted
abort_rebase(frame) == [frame EXCEPT !.aborts = @ + 1, !.exc = "GitCommandError"]

\* manager.git.checkout("-b", temp_branch, base_ref)
ExecCheckoutTemp ==
    /\ ExecAt("checkout")
    /\ locals' = [locals EXCEPT !.branch = "temp", !.temp = TRUE, !.step = "write"]
    /\ UNCHANGED planFile
    /\ ExecUnchanged

\* plan_file = write_plan(plan)
ExecWritePlan ==
    /\ ExecAt("write")
    /\ planFile' = write_plan(locals.plan)
    /\ locals' = [locals EXCEPT !.step = "rebase"]
    /\ ExecUnchanged

\* subprocess.run(["git", "rebase", "-i", "--autosquash", base_ref], ...) and
\* the test of result.returncode
ExecRunRebase ==
    /\ ExecAt("rebase")
    /\ \E exit \in RebaseExits :
         locals' = [locals EXCEPT !.exit = exit,
                                  !.rebasing = (exit = "stopped"),
                                  !.step = IF exit = "ok" THEN "reword" ELSE "failed"]
    /\ UNCHANGED planFile
    /\ ExecUnchanged

\* lines 52-57: manager.abort_rebase() and raise GitCommandError; with the
\* abort raising or not, a GitCommandError reaches the except clause
ExecRebaseFailed ==
    /\ ExecAt("failed")
    /\ locals' = [abort_rebase(locals) EXCEPT !.step = "except"]
    /\ UNCHANGED planFile
    /\ ExecUnchanged

\* the for loop at 59-61: reword_commit passes "—amend" and "—no-edit" to
\* git commit, which takes them for paths and fails
ExecReword ==
    /\ ExecAt("reword")
    /\ IF \E i \in 1..Len(locals.plan) :
            locals.plan[i].action = "REWORD" /\ ~Falsy(locals.plan[i].message)
       THEN locals' = [locals EXCEPT !.exc = "GitCommandError", !.step = "except"]
       ELSE locals' = [locals EXCEPT !.step = "finally"]
    /\ UNCHANGED planFile
    /\ ExecUnchanged

\* except GitError: manager.abort_rebase(); raise
ExecExcept ==
    /\ ExecAt("except")
    /\ locals' = [abort_rebase(locals) EXCEPT !.step = "finally"]
    /\ UNCHANGED planFile
    /\ ExecUnchanged

\* finally: manager.git.checkout(original_branch); with unmerged paths in the
\* index git refuses ("you need to resolve your current index first") and the
\* GitCommandError leaves the finally clause
ExecFinallyCheckout ==
    /\ ExecAt("finally")
    /\ IF locals.rebasing
       THEN locals' = [locals EXCEPT !.exc = "GitCommandError", !.step = "done"]
       ELSE locals' = [locals EXCEPT !.branch = "original", !.step = "delete"]
    /\ UNCHANGED planFile
    /\ ExecUnchanged

\* manager.git.branch("-D", temp_branch)
ExecDeleteBranch ==
    /\ ExecAt("delete")
    /\ locals' = [locals EXCEPT !.temp = FALSE, !.step = "close"]
    /\ UNCHANGED planFile
    /\ ExecUnchanged

\* plan_file.close(): a Path has no close
ExecClose ==
    /\ ExecAt("close")
    /\ locals' = [locals EXCEPT !.exc = "AttributeError", !.step = "done"]
    /\ UNCHANGED planFile
    /\ ExecUnchanged

InitExec ==
    /\ InitEngine(InitRepo)
    /\ mode = "none"
    /\ pc = "done"
    /\ attempt = 0
    /\ llmCalls = 0
    /\ apiErrors = 0
    /\ waits = <<>>
    /\ response = NoResponse
    /\ outcome = "none"
    /\ result = <<>>
    /\ toolCalls = 0
    /\ planFile = <<>>
    /\ driver = NoDriver
    /\ \E plan \in ExecPlans : locals = ExecFrame(plan)

NextExec ==
    \/ ExecCheckoutTemp
    \/ ExecWritePlan
    \/ ExecRunRebase
    \/ ExecRebaseFailed
    \/ ExecReword
    \/ ExecExcept
    \/ ExecFinallyCheckout
    \/ ExecDeleteBranch
    \/ ExecClose
SpecExec == InitExec /\ [][NextExec]_vars

\* C39: when the rebase command of execute_rebase_plan exits non-zero, abort
\* is invoked exactly once in the run, and whenever the function is left the
\* original branch is checked out and the temporary branch is deleted.
C39_AbortOnceAndCleanUp ==
    ExecAt("done")
    => /\ locals.exit \in {"stopped", "refused"} => locals.aborts = 1
       /\ locals.branch = "original"
       /\ ~locals.temp

\* ------------------------------------------------------------------------
\* GitRebaseManager._edit_rebase_plan (src/src/rebaser/rebase_manager.py)
\* ------------------------------------------------------------------------
MaxLines == 2
MaxVisits == 4

\* a line of the listing, as the words line.split() gives; a blank line has
\* none
PlanLines ==
    { <<>>,
      <<"pick", "c1", "fix", "typo">>,
      <<"pick", "c2", "m2">>,
      <<"#", "Rebase">> }
Listings == UNION {[1..n -> PlanLines] : n \in 0..MaxLines}

\* the argument of _edit_rebase_plan in squash_commit, drop_commit, edit_commit
EditPlanActions == {<<"squash", "c1">>, <<"drop", "c1">>, <<"edit", "c1">>}

EditPlanFrame(actions) ==
    [fn |-> "_edit_rebase_plan", step |-> "list", actions |-> actions,
     listing |-> <<>>, plan |-> <<>>, new_plan |-> <<>>, i |-> 1,
     visits |-> 0, rebases |-> 0, exc |-> "none"]

EditPlanAt(step) == locals.fn = "_edit_rebase_plan" /\ locals.step = step

\* `len(parts) >= 2 and parts[0] == "pick" and parts[1] in actions[1:]`
IsTargetPick(parts, actions) ==
    /\ Len(parts) >= 2
    /\ parts[1] = "pick"
    /\ \E k \in 2..Len(actions) : parts[2] = actions[k]

\* f"{actions[0]} {parts[1]} {"".join(parts[2:])}": the action, the commit and
\* the remaining words run together
Rewritten(parts, actions) ==
    [action |-> actions[1], sha |-> parts[2], rest |-> SubSeq(parts, 3, Len(parts))]

\* plan = self.git.rebase("-i", "--show-current-patch").splitlines(): git
\* fails the command, or hands back a listing
EditPlanList ==
    /\ EditPlanAt("list")
    /\ \/ locals' = [locals EXCEPT !.exc = "GitCommandError", !.step = "done"]
       \/ \E listing \in Listings :
            locals' = [locals EXCEPT !.listing = listing, !.plan = listing, !.step = "loop"]
    /\ UNCHANGED planFile
    /\ ExecUnchanged

\* one pass of the body of `for line in plan`: a blank line is skipped; a
\* pick of the target goes to new_plan, every other line is appended to plan,
\* the list the loop runs over; then new_plan is written and git rebase is
\* invoked, which fails or returns
EditPlanLine ==
    /\ EditPlanAt("loop")
    /\ locals.i <= Len(locals.plan)
    /\ locals.visits < MaxVisits
    /\ LET parts == locals.plan[locals.i] IN
       IF parts = <<>>
       THEN locals' = [locals EXCEPT !.i = @ + 1, !.visits = @ + 1]
       ELSE \E raised \in BOOLEAN :
            locals' = [locals EXCEPT
                         !.new_plan = IF IsTargetPick(parts, locals.actions)
                                      THEN Append(@, Rewritten(parts, locals.actions))
                                      ELSE @,
                         !.plan = IF IsTargetPick(parts, locals.actions)
                                  THEN @ ELSE Append(@, parts),
                         !.i = @ + 1,
                         !.visits = @ + 1,
                         !.rebases = @ + 1,
                         !.exc = IF raised THEN "GitCommandError" ELSE "none",
                         !.step = IF raised THEN "done" ELSE "loop"]
    /\ UNCHANGED planFile
    /\ ExecUnchanged

\* the for loop has run out of lines
EditPlanReturn ==
    /\ EditPlanAt("loop")
    /\ locals.i > Len(locals.plan)
    /\ locals' = [locals EXCEPT !.step = "done"]
    /\ UNCHANGED planFile
    /\ ExecUnchanged

InitEditPlan ==
    /\ InitEngine(InitRepo)
    /\ mode = "none"
    /\ pc = "done"
    /\ attempt = 0
    /\ llmCalls = 0
    /\ apiErrors = 0
    /\ waits = <<>>
    /\ response = NoResponse
    /\ outcome = "none"
    /\ result = <<>>
    /\ toolCalls = 0
    /\ planFile = <<>>
    /\ driver = NoDriver
    /\ \E actions \in EditPlanActions : locals = EditPlanFrame(actions)

NextEditPlan == EditPlanList \/ EditPlanLine \/ EditPlanReturn
SpecEditPlan == InitEditPlan /\ [][NextEditPlan]_vars

\* C40: _edit_rebase_plan ends for every listing: the loop visits each line
\* of the listing once, the lines that are no pick of the target included,
\* and so makes at most as many rebase invocations as the listing has lines.
C40_EachLineOnce ==
    locals.fn = "_edit_rebase_plan"
    => /\ locals.visits <= Len(locals.listing)
       /\ locals.rebases <= Len(locals.listing)

====
